---- MODULE Spec2Model ----
(***************************************************************************)
(* Disk replacement for chunkservers (curveadm replace-disk).              *)
(*                                                                         *)
(* The model follows the most recent revision of every piece of the        *)
(* workflow found in the sources:                                          *)
(*   command         src/unnamed/part_005   (runReplaceDisk and helpers)   *)
(*   validation      src/unnamed/part_000   (package checker, l. 405-676)  *)
(*   replace step    src/internal/task/task/bs/replace_disk.go             *)
(*   stop step       src/internal/task/task/bs/replace_disk_stop.go        *)
(*   reconciliation  src/unnamed/part_002   (UpdateDisks)                  *)
(* The SQL storage layer is not part of the sources; its tables are        *)
(* modelled as sequences of rows in insertion order.                       *)
(***************************************************************************)
EXTENDS Integers, Sequences, FiniteSets, TLC

VARIABLES
    disks,      \* table "disk": sequence of Disk Records, insertion order
    repl,       \* table "disk_replacement": sequence of Replacement Records
    doc,        \* the persisted disks document (curveadm.Disks())
    last,       \* what the last finished invocation did and returned
    pc,         \* concurrent runs: position of each process in runReplaceDisk
    loc         \* concurrent runs: local variables of each process

vars == <<disks, repl, doc, last, pc, loc>>

----------------------------------------------------------------------------
(* Bounds of the model *)

MaxTickets == 2
MaxSize == 2

(* The universe of the model: one cluster, the chunkservers of host h1 *)

Hosts == <<"h1", "h2">>
Devices == {"sdb", "sdc", "sdd"}
Services == {"cs1", "cs2"}
UnknownService == "cs9"
NoUuid == ""
Uuids == {"A", "B", NoUuid}
Sizes == 1..MaxSize
FsTypes == {"", "ext4"}

(* Values of the program *)

DISK_DEFAULT_NULL_CHUNKSERVER_ID == "nil"
DISK_URI_PROTO_FS_UUID == "fs:uuid"
STATUS_PENDING == "Pending"
STATUS_RUNNING == "Running"
STATUS_DONE == "Done"
NoSize == -1

(* A segment of a format report that is not a number *)
Malformed == -1

(* Topology: the host a chunkserver is deployed on and its data directory *)
ServiceHost(cs) == IF cs \in Services THEN "h1" ELSE ""

DataDir(cs) == IF cs = "cs1" THEN "/data/cs1" ELSE IF cs = "cs2" THEN "/data/cs2" ELSE ""

----------------------------------------------------------------------------
(* Physical-disk URI "<proto>//<id>", kept as the segments strings.Split    *)
(* returns for it: <<"">> for the empty URI, <<proto, id>> otherwise.       *)

EmptyUri == <<"">>

MakeUri(id) == <<DISK_URI_PROTO_FS_UUID, id>>

getDiskId(disk) ==
    IF Len(disk.uri) = 0 THEN [err |-> "ERR_INVALID_DISK_URI", id |-> ""]
    ELSE IF disk.uri[1] = DISK_URI_PROTO_FS_UUID THEN [err |-> "", id |-> disk.uri[2]]
    ELSE [err |-> "", id |-> ""]

(* strconv.ParseInt of the size column: the empty string does not parse *)
ParseInt(s) == IF s = NoSize THEN [err |-> "ERR_PARSE_INT", val |-> 0] ELSE [err |-> "", val |-> s]

----------------------------------------------------------------------------
(* Storage: Disk Records *)

EmptyDisk ==
    [host |-> "", device |-> "", mount |-> "", svc |-> "", uri |-> EmptyUri, size |-> NoSize]

GetDiskByService(tbl, cs) == SelectSeq(tbl, LAMBDA d : d.svc = cs)

GetDiskByDevice(tbl, host, device) == SelectSeq(tbl, LAMBDA d : d.host = host /\ d.device = device)

GetDiskByHost(tbl, host) == SelectSeq(tbl, LAMBDA d : d.host = host)

GetDiskByMountPoint(tbl, host, mount) == SelectSeq(tbl, LAMBDA d : d.host = host /\ d.mount = mount)

(* SetDisk: insert the row, or update the row that has this (host, device) *)
SetDisk(tbl, host, device, mount, cs) ==
    IF \E i \in 1..Len(tbl) : tbl[i].host = host /\ tbl[i].device = device
    THEN [i \in 1..Len(tbl) |->
            IF tbl[i].host = host /\ tbl[i].device = device
            THEN [tbl[i] EXCEPT !.mount = mount, !.svc = cs]
            ELSE tbl[i]]
    ELSE Append(tbl, [host |-> host, device |-> device, mount |-> mount, svc |-> cs,
                      uri |-> EmptyUri, size |-> NoSize])

DeleteDisk(tbl, host, device) == SelectSeq(tbl, LAMBDA d : ~(d.host = host /\ d.device = device))

(* Storage: Replacement Records *)

SetDiskReplacement(tbl, host, device, diskId, cs) ==
    Append(tbl, [svc |-> cs, host |-> host, device |-> device, diskId |-> diskId,
                 status |-> STATUS_PENDING, progress |-> 0])

GetDiskReplacementByStatus(tbl, status) == SelectSeq(tbl, LAMBDA t : t.status = status)

GetDiskReplacementByService(tbl, cs) == SelectSeq(tbl, LAMBDA t : t.svc = cs)

GetDiskReplacementByDevice(tbl, host, device) ==
    SelectSeq(tbl, LAMBDA t : t.host = host /\ t.device = device)

UpdateDiskReplacementProgress(tbl, percent, cs) ==
    [i \in 1..Len(tbl) |-> IF tbl[i].svc = cs THEN [tbl[i] EXCEPT !.progress = percent] ELSE tbl[i]]

UpdateDiskReplacementStatus(tbl, status, cs) ==
    [i \in 1..Len(tbl) |-> IF tbl[i].svc = cs THEN [tbl[i] EXCEPT !.status = status] ELSE tbl[i]]

----------------------------------------------------------------------------
(* The disks document: the global host list and the ordered disk entries.  *)
(* A list-valued key of an entry is either absent (nil) or a list.         *)

Nil == [nil |-> TRUE, v |-> << >>]

List(s) == [nil |-> FALSE, v |-> s]

DiskEntry(device, mount, only, excl) ==
    [device |-> device, mount |-> mount, hosts_only |-> only, hosts_exclude |-> excl]

(* The loop of UpdateDisks over the entries of the document.  acc carries  *)
(* the entries, the disk table, and the position of the entry of the new   *)
(* device (0 when there is none).                                          *)
RECURSIVE UpdateDisksScan(_, _, _, _, _)
UpdateDisksScan(acc, i, host, device, disk) ==
    IF i > Len(acc.entries) THEN acc
    ELSE
        LET d == acc.entries[i]
            a1 == IF d.device = device THEN [acc EXCEPT !.diskIndex = i] ELSE acc
            a2 == IF d.device = disk.device
                  THEN IF ~d.hosts_exclude.nil
                       THEN [a1 EXCEPT !.entries[i].hosts_exclude =
                                            List(Append(d.hosts_exclude.v, host))]
                       ELSE [a1 EXCEPT !.entries[i].hosts_exclude = List(<<host>>),
                                       !.disks = DeleteDisk(a1.disks, disk.host, disk.device)]
                  ELSE a1
        IN  UpdateDisksScan(a2, i + 1, host, device, disk)

NoDiskRecord_Always(diskRecords) == TRUE

(* The query for a Disk Record at (host, device) returned nothing *)
NoDiskRecord(diskRecords) == Len(diskRecords) = 0

(* UpdateDisks(disksData, host, device, oldDisk): disksData is the document *)
(* the caller read, tbl the disk table.  Returns the error, the table and   *)
(* the document as persisted (the persisted one is unchanged on error).     *)
UpdateDisks(disksData, persisted, tbl, host, device, oldDisk) ==
    LET diskRecords == GetDiskByDevice(tbl, host, device)
        chunkserverId == oldDisk.svc
        oldDiskId == getDiskId(oldDisk).id
    IN  IF NoDiskRecord(diskRecords)
        THEN LET scan == UpdateDisksScan([entries |-> disksData.entries, disks |-> tbl,
                                          diskIndex |-> 0], 1, host, device, oldDisk)
             IN  IF scan.diskIndex # 0 /\ scan.entries[scan.diskIndex].hosts_only.nil
                 THEN \* type assertion on a missing hosts_only key
                      [err |-> "PANIC", disks |-> scan.disks, doc |-> persisted]
                 ELSE LET entries ==
                              IF scan.diskIndex # 0
                              THEN [scan.entries EXCEPT ![scan.diskIndex].hosts_only =
                                       List(Append(scan.entries[scan.diskIndex].hosts_only.v, host))]
                              ELSE Append(scan.entries,
                                          DiskEntry(device, oldDisk.mount, List(<<host>>), Nil))
                      IN  [err |-> "",
                           disks |-> SetDisk(scan.disks, oldDisk.host, device, oldDisk.mount,
                                             DISK_DEFAULT_NULL_CHUNKSERVER_ID),
                           doc |-> [disksData EXCEPT !.entries = entries]]
        ELSE LET disk == diskRecords[1]
             IN  IF disk.svc # chunkserverId
                 THEN [err |-> "ERR_REPLACE_DISK_USED_BY_OTHER_CHUNKSERVER",
                       disks |-> tbl, doc |-> persisted]
                 ELSE IF getDiskId(disk).err # ""
                 THEN [err |-> getDiskId(disk).err, disks |-> tbl, doc |-> persisted]
                 ELSE IF getDiskId(disk).id = oldDiskId
                 THEN [err |-> "ERR_REPLACE_THE_SAME_PHYSICAL_DISK",
                       disks |-> tbl, doc |-> persisted]
                 ELSE [err |-> "", disks |-> tbl, doc |-> disksData]

----------------------------------------------------------------------------
(* Validation pipeline (task "Check Disk Replacement").  A step takes the  *)
(* answers of the remote host from the request's inputs:                   *)
(*   in.health    the outcome of the status probe, per peer device         *)
(*   in.fault     the remote command that fails to execute, if any         *)
(*   in.newSize, in.newUuid, in.fsType   what lsblk prints for the device  *)
(* and returns an error name, "" when it passes.                           *)

ProbeOutcomes == {"ok", "exec_failed", "not_healthy"}

Peers(tbl, host, chunkserverId) ==
    SelectSeq(GetDiskByHost(tbl, host), LAMBDA d : d.svc # chunkserverId)

HealthVerdict_WarnOnly(cmdExecFailureCount) == ""

(* The result of the loop once every peer was probed *)
HealthVerdict(cmdExecFailureCount) ==
    IF cmdExecFailureCount > 0 THEN "ERR_REPLACE_DISK_CLUSTER_HEALTH_UNKNOWN" ELSE ""

(* in.health[d] is the outcome of the probe of the chunkserver that owns   *)
(* device d of the host; "not_healthy" stands for an output that contains  *)
(* COPYSETS_NOT_HEALTHY, whether or not the command also failed.           *)
RECURSIVE checkCopysetsHealtyLoop(_, _, _, _)
checkCopysetsHealtyLoop(peers, health, i, cmdExecFailureCount) ==
    IF i > Len(peers) THEN HealthVerdict(cmdExecFailureCount)
    ELSE IF health[peers[i].device] = "not_healthy" THEN "ERR_REPLACE_DISK_CLUSTER_NOT_HEALTHY"
    ELSE checkCopysetsHealtyLoop(peers, health, i + 1,
            IF health[peers[i].device] = "exec_failed"
            THEN cmdExecFailureCount + 1 ELSE cmdExecFailureCount)

checkCopysetsHealty(tbl, host, chunkserverId, in) ==
    checkCopysetsHealtyLoop(Peers(tbl, host, chunkserverId), in.health, 1, 0)

SizeIsSmaller_OrEqual(newDiskSize, oldDiskSize) == newDiskSize <= oldDiskSize

SizeIsSmaller(newDiskSize, oldDiskSize) == newDiskSize < oldDiskSize

checkDiskSize(in, oldDisk) ==
    IF in.fault = "lsblk_size" THEN "ERR_LIST_BLOCK_DEVICES_FAILED"
    ELSE IF ParseInt(in.newSize).err # "" THEN ParseInt(in.newSize).err
    ELSE IF ParseInt(oldDisk.size).err # "" THEN ParseInt(oldDisk.size).err
    ELSE IF SizeIsSmaller(ParseInt(in.newSize).val, ParseInt(oldDisk.size).val)
    THEN "ERR_REPLACE_DISK_SMALLER_SIZE"
    ELSE ""

checkDiskInUse(tbl, host, newDiskDevice, oldDisk) ==
    LET diskRecords == GetDiskByDevice(tbl, host, newDiskDevice)
    IN  IF Len(diskRecords) > 0 /\ diskRecords[1].svc # oldDisk.svc
        THEN "ERR_REPLACE_DISK_USED_BY_OTHER_CHUNKSERVER"
        ELSE ""

IsTheSameDisk_Never(newDiskId, oldDiskId) == FALSE

IsTheSameDisk(newDiskId, oldDiskId) == newDiskId = oldDiskId

checkDiskTheSame(in, oldDisk) ==
    IF in.fault = "lsblk_uuid" THEN "ERR_LIST_BLOCK_DEVICES_FAILED"
    ELSE IF getDiskId(oldDisk).err # "" THEN getDiskId(oldDisk).err
    ELSE IF IsTheSameDisk(in.newUuid, getDiskId(oldDisk).id)
    THEN "ERR_REPLACE_THE_SAME_PHYSICAL_DISK"
    ELSE ""

checkDiskEmpty_AnyFsType(in) ==
    IF in.fault = "lsblk_fstype" THEN "ERR_LIST_BLOCK_DEVICES_FAILED" ELSE ""

checkDiskEmpty(in) ==
    IF in.fault = "lsblk_fstype" THEN "ERR_LIST_BLOCK_DEVICES_FAILED"
    ELSE IF in.fsType # "" THEN "ERR_DISK_NOT_EMPTY"
    ELSE ""

UmountFilesystem(in) == IF in.fault = "umount" THEN "ERR_UMOUNT_FILE_SYSTEM_FAILED" ELSE ""

CHECK_STEPS_SizeFirst ==
    <<"checkDiskSize", "checkCopysetsHealty", "checkDiskInUse",
      "checkDiskTheSame", "checkDiskEmpty", "UmountFilesystem">>

(* The steps of the task in the order NewCheckDiskReplacementTask adds them *)
CHECK_STEPS == <<"checkCopysetsHealty", "checkDiskSize", "checkDiskInUse",
                 "checkDiskTheSame", "checkDiskEmpty", "UmountFilesystem">>

CheckStep(name, tbl, host, newDiskDevice, oldDisk, in) ==
    CASE name = "checkCopysetsHealty" -> checkCopysetsHealty(tbl, host, oldDisk.svc, in)
      [] name = "checkDiskSize" -> checkDiskSize(in, oldDisk)
      [] name = "checkDiskInUse" -> checkDiskInUse(tbl, host, newDiskDevice, oldDisk)
      [] name = "checkDiskTheSame" -> checkDiskTheSame(in, oldDisk)
      [] name = "checkDiskEmpty" -> checkDiskEmpty(in)
      [] name = "UmountFilesystem" -> UmountFilesystem(in)

(* Runs the steps from position i; log collects the steps that were run *)
RECURSIVE RunCheckSteps(_, _, _, _, _, _, _)
RunCheckSteps(i, log, tbl, host, newDiskDevice, oldDisk, in) ==
    IF i > Len(CHECK_STEPS) THEN [err |-> "", log |-> log]
    ELSE LET e == CheckStep(CHECK_STEPS[i], tbl, host, newDiskDevice, oldDisk, in)
         IN  IF e # "" THEN [err |-> e, log |-> Append(log, CHECK_STEPS[i])]
             ELSE RunCheckSteps(i + 1, Append(log, CHECK_STEPS[i]), tbl, host,
                                newDiskDevice, oldDisk, in)

(* NewCheckDiskReplacementTask and the run of its steps; oldDisk is the    *)
(* Disk Record the steps of the task are given                             *)
CheckDiskReplacementTask(tbl, cs, newDiskDevice, in) ==
    LET host == ServiceHost(cs)
        found == GetDiskByMountPoint(tbl, host, DataDir(cs))
        run == RunCheckSteps(1, << >>, tbl, host, newDiskDevice, found[1], in)
    IN  IF Len(found) = 0
        THEN [err |-> "ERR_GET_DISK_BY_MOUNT_POINT", log |-> << >>, oldDisk |-> EmptyDisk]
        ELSE [err |-> run.err, log |-> run.log, oldDisk |-> found[1]]

----------------------------------------------------------------------------
(* Playbook steps and their tasks.  A task returns the error, the tables,  *)
(* the document, the check steps it ran and the remote commands it issued. *)

CHECK_DISK_REPLACEMENT == "CHECK_DISK_REPLACEMENT"
STOP_SERVICE == "STOP_SERVICE"
FORMAT_CHUNKFILE_POOL == "FORMAT_CHUNKFILE_POOL"
REPLACE_DISK == "REPLACE_DISK"
STOP_FORMAT == "STOP_FORMAT"
STOP_DISK_REPLACEMENT == "STOP_DISK_REPLACEMENT"
GET_FORMAT_STATUS == "GET_FORMAT_STATUS"

REPLACE_DISK_PLAYBOOK_STEPS_StopFirst ==
    <<STOP_SERVICE, CHECK_DISK_REPLACEMENT, FORMAT_CHUNKFILE_POOL, REPLACE_DISK>>

REPLACE_DISK_PLAYBOOK_STEPS ==
    <<CHECK_DISK_REPLACEMENT, STOP_SERVICE, FORMAT_CHUNKFILE_POOL, REPLACE_DISK>>

REPLACE_DISK_STOP_PLAYBOOK_STEPS == <<STOP_FORMAT, STOP_DISK_REPLACEMENT>>

TaskResult(err, S, checks, cmds) ==
    [err |-> err, disks |-> S.disks, repl |-> S.repl, doc |-> S.doc,
     checks |-> checks, cmds |-> cmds, oldDisk |-> EmptyDisk]

(* updateDiskUuid: tune2fs -U <uuid> <device> on the host *)
updateDiskUuid(in) == IF in.fault = "tune2fs" THEN "ERR_TUNE2FS_UPDATE_DISK_UUID_FAILED" ELSE ""

(* NewReplaceDiskTask and replaceDisk.Execute *)
ReplaceDiskTask(S, disksData, cs, newDiskDevPath, in) ==
    LET host == ServiceHost(cs)
        found == GetDiskByMountPoint(S.disks, host, DataDir(cs))
        oldDisk == found[1]
        tune == newDiskDevPath # oldDisk.device
        cmds == IF tune THEN <<<<"tune2fs", host, oldDisk.device>>>> ELSE << >>
    IN  IF Len(found) = 0 THEN TaskResult("ERR_GET_DISK_BY_MOUNT_POINT", S, << >>, << >>)
        ELSE IF Len(oldDisk.svc) = 0 THEN TaskResult("", S, << >>, << >>)
        ELSE IF tune /\ updateDiskUuid(in) # "" THEN TaskResult(updateDiskUuid(in), S, << >>, cmds)
        ELSE LET u == UpdateDisks(disksData, S.doc, S.disks, host, newDiskDevPath, oldDisk)
             IN  TaskResult(u.err, [S EXCEPT !.disks = u.disks, !.doc = u.doc], << >>, cmds)

(* NewStopDiskReplacementTask and restoreDisk.Execute *)
StopDiskReplacementTask(S, disksData, chunkserverId, in) ==
    LET host == ServiceHost(chunkserverId)
        diskReplacements == GetDiskReplacementByService(S.repl, chunkserverId)
        diskDevPath == diskReplacements[1].device
        cmds == <<<<"tune2fs", host, diskDevPath>>>>
        diskRecords == GetDiskByService(S.disks, chunkserverId)
    IN  IF Len(diskReplacements) = 0
        THEN TaskResult("ERR_REPLACE_DISK_NO_SUCH_REPLACEMENT", S, << >>, << >>)
        ELSE IF Len(chunkserverId) = 0 THEN TaskResult("", S, << >>, << >>)
        ELSE IF updateDiskUuid(in) # "" THEN TaskResult(updateDiskUuid(in), S, << >>, cmds)
        ELSE IF Len(diskRecords) = 0
        THEN TaskResult("ERR_DATABASE_EMPTY_QUERY_RESULT", S, << >>, cmds)
        ELSE LET u == UpdateDisks(disksData, S.doc, S.disks, host, diskDevPath, diskRecords[1])
             IN  TaskResult(u.err, [S EXCEPT !.disks = u.disks, !.doc = u.doc], << >>, cmds)

(* One playbook step: the task of the step is created, then executed *)
RunStep(step, S, disksData, options, in) ==
    LET cs == options.chunkserverId
        host == ServiceHost(cs)
    IN  CASE step = CHECK_DISK_REPLACEMENT ->
                LET c == CheckDiskReplacementTask(S.disks, cs, options.device, in)
                IN  [TaskResult(c.err, S, c.log, << >>) EXCEPT !.oldDisk = c.oldDisk]
          [] step = STOP_SERVICE ->
                IF in.fault = "stop_service" THEN TaskResult("ERR_STOP_SERVICE_FAILED", S, << >>, << >>)
                ELSE TaskResult("", S, << >>, <<<<"stop_service", host, cs>>>>)
          [] step = FORMAT_CHUNKFILE_POOL ->
                IF in.fault = "format" THEN TaskResult("ERR_FORMAT_FAILED", S, << >>, << >>)
                ELSE TaskResult("", S, << >>, <<<<"format", host, options.device>>>>)
          [] step = REPLACE_DISK -> ReplaceDiskTask(S, disksData, cs, options.device, in)
          [] step = STOP_FORMAT -> TaskResult("", S, << >>, << >>)
          [] step = STOP_DISK_REPLACEMENT -> StopDiskReplacementTask(S, disksData, cs, in)
          [] step = GET_FORMAT_STATUS -> TaskResult("", S, << >>, << >>)

(* The run after the task of a step returned r: what the step did is kept, *)
(* with its error                                                          *)
StepDone(acc, step, r) ==
    [err |-> r.err, disks |-> r.disks, repl |-> r.repl, doc |-> r.doc,
     steps |-> Append(acc.steps, step),
     checks |-> acc.checks \o r.checks,
     cmds |-> acc.cmds \o r.cmds,
     oldDisk |-> IF step = CHECK_DISK_REPLACEMENT THEN r.oldDisk ELSE acc.oldDisk]

(* pb.Run(): the steps in order, the first error ends the run *)
RECURSIVE RunPlaybook(_, _, _, _, _, _)
RunPlaybook(steps, i, acc, disksData, options, in) ==
    IF i > Len(steps) \/ acc.err # "" THEN acc
    ELSE RunPlaybook(steps, i + 1,
                     StepDone(acc, steps[i],
                              RunStep(steps[i],
                                      [disks |-> acc.disks, repl |-> acc.repl, doc |-> acc.doc],
                                      disksData, options, in)),
                     disksData, options, in)

----------------------------------------------------------------------------
(* The command: curveadm replace-disk [--chunkserver-id c] [--device d]    *)
(*                                    [--stop] [--status]                  *)

Options(chunkserverId, device, stop, status) ==
    [chunkserverId |-> chunkserverId, device |-> device,
     stopDiskReplacement |-> stop, diskReplacementStatus |-> status]

checkRequiredOptions(options) ==
    IF options.chunkserverId = "" /\ (options.stopDiskReplacement \/ options.device # "")
    THEN "ERR_CHUNKSERVER_ID_IS_REQUIRED"
    ELSE IF ~options.stopDiskReplacement /\ ~options.diskReplacementStatus
            /\ options.device = ""
    THEN "ERR_DISK_PATH_IS_REQUIRED"
    ELSE ""

checkRunningDiskReplacement(tbl, options) ==
    LET diskReplacements == GetDiskReplacementByStatus(tbl, STATUS_RUNNING)
    IN  IF ~options.diskReplacementStatus
           /\ \E i \in 1..Len(diskReplacements) :
                 diskReplacements[i].svc # options.chunkserverId
        THEN [err |-> "ERR_REPLACE_DISK_TOO_MANY", chunkserverReplacedDisk |-> FALSE]
        ELSE [err |-> "",
              chunkserverReplacedDisk |->
                 ~options.diskReplacementStatus /\ Len(diskReplacements) > 0]

getOldDisk(tbl, options) ==
    IF options.chunkserverId # ""
    THEN LET diskRecords == GetDiskByService(tbl, options.chunkserverId)
         IN  IF Len(diskRecords) = 0
             THEN [err |-> "ERR_DATABASE_EMPTY_QUERY_RESULT", oldDisk |-> EmptyDisk]
             ELSE [err |-> "", oldDisk |-> diskRecords[1]]
    ELSE [err |-> "", oldDisk |-> EmptyDisk]

(* The ticket records the device of the old disk and no former disk id *)
addDiskAndReplacementRecords_OldDevice(S, oldDisk, options, chunkserverReplacedDisk, formerDiskId) ==
    IF options.device # ""
    THEN LET repl1 == IF ~chunkserverReplacedDisk
                      THEN SetDiskReplacement(S.repl, oldDisk.host, oldDisk.device,
                                              "", oldDisk.svc)
                      ELSE S.repl
             disks1 == IF options.device # oldDisk.device
                       THEN SetDisk(S.disks, oldDisk.host, options.device, oldDisk.mount,
                                    oldDisk.svc)
                       ELSE S.disks
         IN  [S EXCEPT !.repl = repl1, !.disks = disks1]
    ELSE S

addDiskAndReplacementRecords(S, oldDisk, options, chunkserverReplacedDisk, formerDiskId) ==
    IF options.device # ""
    THEN LET repl1 == IF ~chunkserverReplacedDisk
                      THEN SetDiskReplacement(S.repl, oldDisk.host, options.device,
                                              formerDiskId, oldDisk.svc)
                      ELSE S.repl
             disks1 == IF options.device # oldDisk.device
                       THEN SetDisk(S.disks, oldDisk.host, options.device, oldDisk.mount,
                                    oldDisk.svc)
                       ELSE S.disks
         IN  [S EXCEPT !.repl = repl1, !.disks = disks1]
    ELSE S

getChunkServerDisk(tbl, chunkserverId) ==
    LET found == GetDiskByService(tbl, chunkserverId)
    IN  IF Len(found) = 0 THEN "ERR_DATABASE_EMPTY_QUERY_RESULT"
        ELSE IF ServiceHost(chunkserverId) # found[1].host THEN "ERR_NO_SERVICES_MATCHED"
        ELSE ""

(* genReplaceDiskPlaybook: the error, or the steps of the playbook *)
genReplaceDiskPlaybook(S, options) ==
    IF options.diskReplacementStatus
    THEN IF \E i \in 1..Len(S.repl) : getChunkServerDisk(S.disks, S.repl[i].svc) # ""
         THEN LET i == CHOOSE j \in 1..Len(S.repl) :
                          /\ getChunkServerDisk(S.disks, S.repl[j].svc) # ""
                          /\ \A k \in 1..(j - 1) : getChunkServerDisk(S.disks, S.repl[k].svc) = ""
              IN  [err |-> getChunkServerDisk(S.disks, S.repl[i].svc), steps |-> << >>]
         ELSE [err |-> "", steps |-> <<GET_FORMAT_STATUS>>]
    ELSE IF getChunkServerDisk(S.disks, options.chunkserverId) # ""
    THEN [err |-> getChunkServerDisk(S.disks, options.chunkserverId), steps |-> << >>]
    ELSE [err |-> "",
          steps |-> IF options.stopDiskReplacement THEN REPLACE_DISK_STOP_PLAYBOOK_STEPS
                    ELSE REPLACE_DISK_PLAYBOOK_STEPS]

(* The progress of a format report: Formatted is "current/target", kept as *)
(* the segments strings.Split returns.  Sprintf("%.2f") prints a decimal   *)
(* point (or NaN/Inf), which strconv.ParseInt does not accept: it returns  *)
(* 0 with a syntax error, and the error is dropped.                        *)
Sprintf2f(current, target) ==
    IF target = 0 THEN [digitsOnly |-> FALSE, whole |-> 0]
    ELSE [digitsOnly |-> FALSE, whole |-> (100 * current) \div target]

strconvParseInt(text) == IF text.digitsOnly THEN text.whole ELSE 0

(* strconv.Atoi of a segment of Formatted: 0 for a segment that is not a   *)
(* number (the error is dropped)                                           *)
strconvAtoi(segment) == IF segment = Malformed THEN 0 ELSE segment

ReportPercent(status) ==
    LET p == IF Len(status.formatted) = 2
             THEN strconvParseInt(Sprintf2f(strconvAtoi(status.formatted[1]),
                                            strconvAtoi(status.formatted[2])))
             ELSE 0
    IN  IF p >= 100 \/ status.status = STATUS_DONE THEN 100 ELSE p

(* The body of the loop of updateDiskReplacementProgressStatus for one     *)
(* entry of the format status map                                          *)
UpdateOneProgressStatus(tbl, status) ==
    LET percent == ReportPercent(status)
        diskReplacements == GetDiskReplacementByDevice(tbl, status.host, status.device)
        drp == diskReplacements[1]
        t1 == UpdateDiskReplacementProgress(tbl, percent, drp.svc)
    IN  IF Len(diskReplacements) = 0 THEN tbl
        ELSE IF percent = 100
        THEN IF drp.status = STATUS_DONE THEN t1
             ELSE UpdateDiskReplacementStatus(t1, STATUS_DONE, drp.svc)
        ELSE UpdateDiskReplacementStatus(t1, STATUS_RUNNING, drp.svc)

(* formatStatusMap is a sequence here: the order in which the map is ranged *)
RECURSIVE updateDiskReplacementProgressStatus(_, _, _)
updateDiskReplacementProgressStatus(tbl, formatStatusMap, i) ==
    IF i > Len(formatStatusMap) THEN tbl
    ELSE updateDiskReplacementProgressStatus(
            UpdateOneProgressStatus(tbl, formatStatusMap[i]), formatStatusMap, i + 1)

Outcome(err, S, steps, checks, cmds) ==
    [err |-> err, disks |-> S.disks, repl |-> S.repl, doc |-> S.doc,
     steps |-> steps, checks |-> checks, cmds |-> cmds, oldDisk |-> EmptyDisk]

(* The end of runReplaceDisk: an error of the playbook is returned; the     *)
(* status command then folds the collected format reports into the tickets *)
AfterRun(run, options, in) ==
    IF run.err # "" THEN run
    ELSE IF options.diskReplacementStatus
    THEN [run EXCEPT !.repl = updateDiskReplacementProgressStatus(run.repl, in.reports, 1)]
    ELSE run

runReplaceDisk(S, options, in) ==
    LET running == checkRunningDiskReplacement(S.repl, options)
        old == getOldDisk(S.disks, options)
        oldDiskUuid == getDiskId(old.oldDisk)
        S1 == addDiskAndReplacementRecords(S, old.oldDisk, options,
                                           running.chunkserverReplacedDisk, oldDiskUuid.id)
        pb == genReplaceDiskPlaybook(S1, options)
    IN  IF Len(S.disks) = 0 THEN Outcome("ERR_EMPTY_DISKS", S, << >>, << >>, << >>)
        ELSE IF checkRequiredOptions(options) # "" THEN Outcome("", S, << >>, << >>, << >>)
        ELSE IF running.err # "" THEN Outcome(running.err, S, << >>, << >>, << >>)
        ELSE IF old.err # "" THEN Outcome(old.err, S, << >>, << >>, << >>)
        ELSE IF oldDiskUuid.err # "" THEN Outcome(oldDiskUuid.err, S, << >>, << >>, << >>)
        ELSE IF pb.err # "" THEN Outcome(pb.err, S1, << >>, << >>, << >>)
        ELSE IF ~options.diskReplacementStatus /\ in.fault = "cancel"
        THEN Outcome("ERR_CANCEL_OPERATION", S1, << >>, << >>, << >>)
        ELSE AfterRun(RunPlaybook(pb.steps, 1, Outcome("", S1, << >>, << >>, << >>),
                                  S.doc, options, in), options, in)

----------------------------------------------------------------------------
(* Inputs of an invocation *)

(* What GET_FORMAT_STATUS reports for a device: the format job is half way *)
(* or has finished                                                         *)
ReportKinds ==
    {[formatted |-> <<1, 2>>, status |-> "Formatting"],
     [formatted |-> <<2, 2>>, status |-> STATUS_DONE]}

NoHealth == [d \in Devices |-> "ok"]

DefaultIn ==
    [health |-> NoHealth, fault |-> "none", newSize |-> MaxSize, newUuid |-> NoUuid,
     fsType |-> "", reports |-> << >>]

(* The devices whose chunkservers the health check of a replace probes *)
PeerDevices(tbl, cs, device) ==
    {d \in Devices : d # device /\ \E i \in 1..Len(tbl) :
        tbl[i].host = ServiceHost(cs) /\ tbl[i].device = d /\ tbl[i].svc # cs}

(* The answers of the peers: only the peers are probed *)
Healths(P) ==
    {[d \in Devices |-> IF d \in P THEN g[d] ELSE "ok"] : g \in [P -> ProbeOutcomes]}

(* The inputs of a replace.  Inputs that differ only in an answer that no  *)
(* step can ask for (the run has ended before) are the same input.         *)
ReplaceInputs(tbl, cs, device) ==
    IF Len(GetDiskByService(tbl, cs)) = 0 THEN {DefaultIn}
    ELSE
        {[DefaultIn EXCEPT !.health = h] : h \in Healths(PeerDevices(tbl, cs, device)) \ {NoHealth}}
        \cup {[DefaultIn EXCEPT !.fault = f] :
                 f \in {"cancel", "lsblk_size", "lsblk_uuid", "lsblk_fstype", "umount",
                        "stop_service", "format", "tune2fs"}}
        \cup {[DefaultIn EXCEPT !.newSize = sz, !.newUuid = u, !.fsType = t] :
                 sz \in Sizes, u \in Uuids, t \in FsTypes}

StopInputs == {[DefaultIn EXCEPT !.fault = f] : f \in {"none", "cancel", "tune2fs"}}

(* The format status map after GET_FORMAT_STATUS: one report per (host,    *)
(* device) of a ticket, ranged over in any order                           *)
TicketDevices(tbl) == {tbl[i].device : i \in 1..Len(tbl)}

Orders(D) == {o \in [1..Cardinality(D) -> D] : \A i, j \in 1..Cardinality(D) : o[i] = o[j] => i = j}

StatusReports(tbl) ==
    {[i \in 1..Len(o) |-> [host |-> "h1", device |-> o[i], formatted |-> r[o[i]].formatted,
                           status |-> r[o[i]].status]] :
        o \in Orders(TicketDevices(tbl)),
        r \in [TicketDevices(tbl) -> ReportKinds]}

----------------------------------------------------------------------------
(* Initial states: the disks were committed for both hosts and the         *)
(* chunkservers of h1 deployed on them; or nothing was committed yet.      *)

Row(host, device, mount, cs, id, size) ==
    [host |-> host, device |-> device, mount |-> mount, svc |-> cs,
     uri |-> IF id = NoUuid THEN EmptyUri ELSE MakeUri(id), size |-> size]

InitDisks ==
    <<Row("h1", "sdb", "/data/cs1", "cs1", "A", MaxSize),
      Row("h1", "sdc", "/data/cs2", "cs2", "B", 1),
      Row("h1", "sdd", "/data/cs3", DISK_DEFAULT_NULL_CHUNKSERVER_ID, NoUuid, NoSize),
      Row("h2", "sdb", "/data/cs1", DISK_DEFAULT_NULL_CHUNKSERVER_ID, NoUuid, NoSize)>>

InitDoc ==
    [hosts |-> Hosts,
     entries |-> <<DiskEntry("sdb", "/data/cs1", Nil, Nil),
                   DiskEntry("sdc", "/data/cs2", List(<<"h1">>), Nil),
                   DiskEntry("sdd", "/data/cs3", Nil, List(<<"h2">>))>>]

EmptyDoc == [hosts |-> Hosts, entries |-> << >>]

(* last: the request, its inputs, the Disk Record of the service when the  *)
(* request was issued (old), the one the validation task was given         *)
(* (checked), the error returned and the steps, checks and commands run    *)
NoLast ==
    [op |-> Options("", "", FALSE, FALSE), in |-> DefaultIn, err |-> "", ran |-> FALSE,
     old |-> EmptyDisk, checked |-> EmptyDisk,
     steps |-> << >>, checks |-> << >>, cmds |-> << >>]

(* Two command processes; process p replaces the disk of ProcService(p) *)
Procs == {1, 2}

ProcService(p) == IF p = 1 THEN "cs1" ELSE "cs2"

(* The local variables of runReplaceDisk: the options and the inputs, the  *)
(* document read when the process started, what the check of the running   *)
(* replacements returned and how many tickets the table held then, the old *)
(* disk, the playbook and the position in it, the steps run, the error     *)
NoLocal ==
    [options |-> Options("", "", FALSE, FALSE), in |-> DefaultIn, disksData |-> EmptyDoc,
     chunkserverReplacedDisk |-> FALSE, sawTickets |-> 0, oldDisk |-> EmptyDisk,
     ticket |-> FALSE, steps |-> << >>, i |-> 1, ran |-> << >>, err |-> ""]

Init ==
    /\ \/ disks = InitDisks /\ doc = InitDoc
       \/ disks = << >> /\ doc = EmptyDoc
    /\ repl = << >>
    /\ last = NoLast
    /\ pc = [p \in Procs |-> "idle"]
    /\ loc = [p \in Procs |-> NoLocal]

----------------------------------------------------------------------------
(* Actions: one invocation of the command, run to completion *)

Invoke(options, in) ==
    \E r \in {runReplaceDisk([disks |-> disks, repl |-> repl, doc |-> doc], options, in)} :
        /\ disks' = r.disks
        /\ repl' = r.repl
        /\ doc' = r.doc
        /\ last' = [op |-> options, in |-> in, err |-> r.err, ran |-> TRUE,
                    old |-> getOldDisk(disks, options).oldDisk, checked |-> r.oldDisk,
                    steps |-> r.steps, checks |-> r.checks, cmds |-> r.cmds]
        /\ UNCHANGED <<pc, loc>>

Replace ==
    /\ ~last.ran
    /\ Len(repl) < MaxTickets
    /\ \E cs \in Services \cup {UnknownService}, device \in Devices :
          \E in \in ReplaceInputs(disks, cs, device) :
             Invoke(Options(cs, device, FALSE, FALSE), in)

Stop ==
    /\ ~last.ran
    /\ \E cs \in Services, in \in StopInputs : Invoke(Options(cs, "", TRUE, FALSE), in)

Status ==
    /\ ~last.ran
    /\ \E cs \in {"", "cs1"} :
          \E reports \in StatusReports(repl) :
             Invoke(Options(cs, "", FALSE, TRUE), [DefaultIn EXCEPT !.reports = reports])

(* A status request that also names a service and a device; the format     *)
(* status is collected for the tickets in the table when the playbook runs *)
StatusWithDevice ==
    /\ ~last.ran
    /\ Len(repl) < MaxTickets
    /\ \E cs \in {"cs1"}, device \in Devices :
          \E reports \in StatusReports(SetDiskReplacement(repl, ServiceHost(cs), device, "", cs)) :
             Invoke(Options(cs, device, FALSE, TRUE), [DefaultIn EXCEPT !.reports = reports])

(* A replace for an id that owns Disk Records but names no deployed         *)
(* service: the placeholder owner of the disks no chunkserver uses         *)
ReplaceUndeployed ==
    /\ ~last.ran
    /\ Len(repl) < MaxTickets
    /\ \E device \in Devices :
          Invoke(Options(DISK_DEFAULT_NULL_CHUNKSERVER_ID, device, FALSE, FALSE), DefaultIn)

(* The process of the invocation exits; the next command can be issued *)
Return ==
    /\ last.ran
    /\ last' = NoLast
    /\ UNCHANGED <<disks, repl, doc, pc, loc>>

Next == Replace \/ ReplaceUndeployed \/ Stop \/ Status \/ StatusWithDevice \/ Return

Spec == Init /\ [][Next]_vars

----------------------------------------------------------------------------
(* Concurrent runs: two processes run runReplaceDisk at the same time; a   *)
(* step is one access to the storage, or one step of the playbook.         *)

ConcInputs ==
    {DefaultIn, [DefaultIn EXCEPT !.fault = "cancel"], [DefaultIn EXCEPT !.fsType = "ext4"]}

Exit(p, err) ==
    /\ pc' = [pc EXCEPT ![p] = "done"]
    /\ loc' = [loc EXCEPT ![p].err = err]

(* The process starts: it loads the Disk Records and the document, checks  *)
(* that there are Disk Records and that the options are complete           *)
ConcStart(p) ==
    /\ pc[p] = "idle"
    /\ \E device \in Devices, in \in ConcInputs :
          LET options == Options(ProcService(p), device, FALSE, FALSE)
              l == [loc[p] EXCEPT !.options = options, !.in = in, !.disksData = doc]
          IN  IF Len(disks) = 0
              THEN /\ pc' = [pc EXCEPT ![p] = "done"]
                   /\ loc' = [loc EXCEPT ![p] = [l EXCEPT !.err = "ERR_EMPTY_DISKS"]]
              ELSE IF checkRequiredOptions(options) # ""
              THEN /\ pc' = [pc EXCEPT ![p] = "done"]
                   /\ loc' = [loc EXCEPT ![p] = l]
              ELSE /\ pc' = [pc EXCEPT ![p] = "checkRunning"]
                   /\ loc' = [loc EXCEPT ![p] = l]
    /\ UNCHANGED <<disks, repl, doc, last>>

ConcCheckRunning(p) ==
    /\ pc[p] = "checkRunning"
    /\ LET running == checkRunningDiskReplacement(repl, loc[p].options)
       IN  IF running.err # "" THEN Exit(p, running.err)
           ELSE /\ pc' = [pc EXCEPT ![p] = "getOldDisk"]
                /\ loc' = [loc EXCEPT
                             ![p].chunkserverReplacedDisk = running.chunkserverReplacedDisk,
                             ![p].sawTickets = Len(repl)]
    /\ UNCHANGED <<disks, repl, doc, last>>

ConcGetOldDisk(p) ==
    /\ pc[p] = "getOldDisk"
    /\ LET old == getOldDisk(disks, loc[p].options)
       IN  IF old.err # "" THEN Exit(p, old.err)
           ELSE IF getDiskId(old.oldDisk).err # "" THEN Exit(p, getDiskId(old.oldDisk).err)
           ELSE /\ pc' = [pc EXCEPT ![p] = "addReplacement"]
                /\ loc' = [loc EXCEPT ![p].oldDisk = old.oldDisk]
    /\ UNCHANGED <<disks, repl, doc, last>>

(* The first write of addDiskAndReplacementRecords: the ticket *)
ConcAddReplacement(p) ==
    /\ pc[p] = "addReplacement"
    /\ LET S1 == addDiskAndReplacementRecords([disks |-> disks, repl |-> repl, doc |-> doc],
                     loc[p].oldDisk, loc[p].options, loc[p].chunkserverReplacedDisk,
                     getDiskId(loc[p].oldDisk).id)
       IN  /\ repl' = S1.repl
           /\ loc' = [loc EXCEPT ![p].ticket = (S1.repl # repl)]
    /\ pc' = [pc EXCEPT ![p] = "addDisk"]
    /\ UNCHANGED <<disks, doc, last>>

(* The second write of addDiskAndReplacementRecords: the new Disk Record *)
ConcAddDisk(p) ==
    /\ pc[p] = "addDisk"
    /\ LET S1 == addDiskAndReplacementRecords([disks |-> disks, repl |-> repl, doc |-> doc],
                     loc[p].oldDisk, loc[p].options, TRUE, getDiskId(loc[p].oldDisk).id)
       IN  disks' = S1.disks
    /\ pc' = [pc EXCEPT ![p] = "genPlaybook"]
    /\ UNCHANGED <<repl, doc, loc, last>>

(* genReplaceDiskPlaybook, then the confirmation of the user *)
ConcGenPlaybook(p) ==
    /\ pc[p] = "genPlaybook"
    /\ LET pb == genReplaceDiskPlaybook([disks |-> disks, repl |-> repl, doc |-> doc],
                                        loc[p].options)
       IN  IF pb.err # "" THEN Exit(p, pb.err)
           ELSE IF loc[p].in.fault = "cancel" THEN Exit(p, "ERR_CANCEL_OPERATION")
           ELSE /\ pc' = [pc EXCEPT ![p] = "playbook"]
                /\ loc' = [loc EXCEPT ![p].steps = pb.steps, ![p].i = 1]
    /\ UNCHANGED <<disks, repl, doc, last>>

(* One step of the playbook *)
ConcStep(p) ==
    /\ pc[p] = "playbook"
    /\ LET l == loc[p]
           r == RunStep(l.steps[l.i], [disks |-> disks, repl |-> repl, doc |-> doc],
                        l.disksData, l.options, l.in)
           l1 == [l EXCEPT !.ran = Append(l.ran, l.steps[l.i]), !.i = l.i + 1, !.err = r.err]
       IN  /\ disks' = r.disks
           /\ repl' = r.repl
           /\ doc' = r.doc
           /\ loc' = [loc EXCEPT ![p] = l1]
           /\ pc' = [pc EXCEPT ![p] = IF r.err # "" \/ l.i = Len(l.steps)
                                      THEN "done" ELSE "playbook"]
    /\ UNCHANGED last

NextConc ==
    \E p \in Procs :
        \/ ConcStart(p)
        \/ ConcCheckRunning(p)
        \/ ConcGetOldDisk(p)
        \/ ConcAddReplacement(p)
        \/ ConcAddDisk(p)
        \/ ConcGenPlaybook(p)
        \/ ConcStep(p)

SpecConc == Init /\ [][NextConc]_vars

----------------------------------------------------------------------------
(* Vocabulary of the properties *)

IsReplace(op) == ~op.stopDiskReplacement /\ ~op.diskReplacementStatus /\ op.device # ""

InFlight(t) == t.status \in {STATUS_PENDING, STATUS_RUNNING}

(* This step is a replace request, run to completion *)
ReplaceStep == ~last.ran /\ last'.ran /\ IsReplace(last'.op)

(* The last request was a replace request *)
ReplaceRan == last.ran /\ IsReplace(last.op)

HasCmd(cmds, kind) == \E i \in 1..Len(cmds) : cmds[i][1] = kind

(* The Disk Record of (host, device) is owned by a service other than cs *)
OwnedByOther(tbl, host, device, cs) ==
    \E i \in 1..Len(tbl) :
        tbl[i].host = host /\ tbl[i].device = device /\ tbl[i].svc \in Services \ {cs}

----------------------------------------------------------------------------
(* C1: in every state reached by replace, status and stop requests run one  *)
(* after the other, at most one replacement record, over all services, has *)
(* status pending or running.                                              *)
C1_SingleInFlight ==
    Cardinality({i \in 1..Len(repl) : InFlight(repl[i])}) <= 1

(* C3: a replace request for a service issued while a ticket of another    *)
(* service is pending or running fails with the too-many-replacements      *)
(* error and leaves the replacement records, the Disk Records and the      *)
(* document as they were.                                                  *)
C3_RejectedWhileOtherInFlight ==
    [][(ReplaceStep /\ \E i \in 1..Len(repl) :
                          InFlight(repl[i]) /\ repl[i].svc # last'.op.chunkserverId)
       => (last'.err = "ERR_REPLACE_DISK_TOO_MANY"
           /\ repl' = repl /\ disks' = disks /\ doc' = doc)]_vars

(* C4: when a check of the validation pipeline rejects a replace request,   *)
(* the Disk Records and the document are, when the request returns, what   *)
(* they were before it.                                                    *)
C4_RejectionLeavesDisks ==
    [][(ReplaceStep /\ last'.steps = <<CHECK_DISK_REPLACEMENT>> /\ last'.err # "")
       => (disks' = disks /\ doc' = doc)]_vars

(* C7: a replace request naming a candidate device whose Disk Record is    *)
(* owned by another service is rejected with the used-by-other-chunkserver *)
(* error, and after the request that record is still owned by the other    *)
(* service.  Stated for requests that no earlier step can reject: the      *)
(* service has a Disk Record and the host answers every probe normally.    *)
C7_UsedByOtherRejected ==
    [][(ReplaceStep /\ last'.in = DefaultIn /\ last'.old # EmptyDisk
        /\ OwnedByOther(disks, last'.old.host, last'.op.device, last'.op.chunkserverId))
       => (last'.err = "ERR_REPLACE_DISK_USED_BY_OTHER_CHUNKSERVER"
           /\ \E i \in 1..Len(disks) :
                 /\ disks[i].host = last'.old.host /\ disks[i].device = last'.op.device
                 /\ \E j \in 1..Len(disks') : disks'[j] = disks[i])]_vars

----------------------------------------------------------------------------
(* The validation task ran to its end without an error *)
ValidationPassed ==
    /\ last.checks = CHECK_STEPS
    /\ (last.err = "" \/ last.steps[Len(last.steps)] # CHECK_DISK_REPLACEMENT)

StepRank(step) ==
    CASE step = CHECK_DISK_REPLACEMENT -> 1
      [] step = STOP_SERVICE -> 2
      [] step = FORMAT_CHUNKFILE_POOL -> 3
      [] step = REPLACE_DISK -> 4

(* C5: the steps of a replace run in the order validation, stop service,   *)
(* format, reconcile; the service is stopped and the device formatted only *)
(* after every validation check passed, and the reconcile step runs only   *)
(* after the format step was invoked without error.                        *)
C5_StepOrder ==
    ReplaceRan =>
        /\ \A i, j \in 1..Len(last.steps) :
              i < j => StepRank(last.steps[i]) < StepRank(last.steps[j])
        /\ (HasCmd(last.cmds, "stop_service") \/ HasCmd(last.cmds, "format")) => ValidationPassed
        /\ (\E i \in 1..Len(last.steps) : last.steps[i] = REPLACE_DISK)
              => HasCmd(last.cmds, "format")

C5_Witness ==
    /\ ReplaceRan /\ last.err = ""
    /\ last.steps = <<CHECK_DISK_REPLACEMENT, STOP_SERVICE, FORMAT_CHUNKFILE_POOL, REPLACE_DISK>>
    /\ HasCmd(last.cmds, "stop_service") /\ HasCmd(last.cmds, "format")

C9_NotEmptyRejected ==
    ReplaceRan =>
        /\ last.in.fsType # "" => (last.err # "" /\ ~HasCmd(last.cmds, "format"))
        /\ ((\E i \in 1..Len(last.checks) : last.checks[i] = "checkDiskEmpty")
            /\ last.in.fault # "lsblk_fstype")
           => /\ last.in.fsType # "" => last.err = "ERR_DISK_NOT_EMPTY"
              /\ last.in.fsType = ""
                    => \E i \in 1..Len(last.checks) : last.checks[i] = "UmountFilesystem"

C9_Witness ==
    /\ ReplaceRan /\ last.in.fsType # "" /\ last.err = "ERR_DISK_NOT_EMPTY"
    /\ last.checks[Len(last.checks)] = "checkDiskEmpty"
    /\ ~HasCmd(last.cmds, "format")

(* The probes of the peers, as the last request saw them *)
SomeProbeFailed == \E d \in Devices : last.in.health[d] = "exec_failed"

SomeProbeUnhealthy == \E d \in Devices : last.in.health[d] = "not_healthy"

HealthCheckRan == ReplaceRan /\ Len(last.checks) > 0

----------------------------------------------------------------------------
(* The process created a ticket and ran steps of the playbook *)
Proceeded(p) == loc[p].ticket /\ Len(loc[p].ran) > 0

(* C2: when two replace requests for two services run concurrently, there  *)
(* is no interleaving in which both find no ticket in the table when they  *)
(* check, both create a ticket and both go on to validation.               *)
C2_NoDoubleProceed ==
    ~(\A p \in Procs : Proceeded(p) /\ loc[p].sawTickets = 0)

----------------------------------------------------------------------------
(* This step is a status request, run to completion *)
StatusStep == ~last.ran /\ last'.ran /\ last'.op.diskReplacementStatus

(* This step is a stop request, run to completion *)
StopStep == ~last.ran /\ last'.ran /\ last'.op.stopDiskReplacement

(* The last request was a stop request / a status request *)
StopRan == last.ran /\ last.op.stopDiskReplacement

(* The changes of status the life cycle of a ticket has; a status request  *)
(* that sees the format finished takes a pending ticket through running to *)
(* done at once                                                            *)
AllowedStatusChange(a, b) ==
    \/ a = b
    \/ <<a, b>> \in {<<STATUS_PENDING, STATUS_RUNNING>>, <<STATUS_RUNNING, STATUS_DONE>>,
                     <<STATUS_PENDING, STATUS_DONE>>}

(* C11: the status of a replacement record moves only forward: a record is  *)
(* created pending, and no request moves a ticket from done back to        *)
(* running or pending, nor from running back to pending.                   *)
C11_StatusTransitions ==
    [][/\ \A i \in 1..Len(repl) :
             i <= Len(repl') => AllowedStatusChange(repl[i].status, repl'[i].status)
       /\ \A i \in (Len(repl) + 1)..Len(repl') : repl'[i].status = STATUS_PENDING]_vars

(* C12: once a ticket has status done, a further status request, whatever   *)
(* format report it observes, leaves its status done and its progress 100. *)
C12_DoneIsTerminal ==
    [][StatusStep =>
          \A i \in 1..Len(repl) :
              (repl[i].status = STATUS_DONE /\ repl[i].progress = 100)
              => (i <= Len(repl') /\ repl'[i].status = STATUS_DONE
                  /\ repl'[i].progress = 100)]_vars

----------------------------------------------------------------------------
(* The first ticket of service cs: the one the stop task takes *)
TicketOf(tbl, cs) == GetDiskReplacementByService(tbl, cs)[1]

HasRecord(tbl, host, device) == Len(GetDiskByDevice(tbl, host, device)) > 0

(* C13: after a stop for service S has completed successfully, the Disk     *)
(* Records have no entry for the new device of the ticket unless there was *)
(* one before any replacement, the Disk Record of the old disk (the one    *)
(* whose physical-disk id the ticket kept) exists and is owned by S, and S *)
(* has no pending or running ticket.                                       *)
C13_StopReverts ==
    (StopRan /\ last.err = "" /\ Len(GetDiskReplacementByService(repl, last.op.chunkserverId)) > 0)
    => LET S == last.op.chunkserverId
           t == TicketOf(repl, S)
       IN  /\ HasRecord(disks, t.host, t.device) => HasRecord(InitDisks, t.host, t.device)
           /\ \E i \in 1..Len(disks) :
                 disks[i].svc = S /\ getDiskId(disks[i]).id = t.diskId
                 /\ disks[i].device # t.device
           /\ \A i \in 1..Len(repl) : repl[i].svc = S => ~InFlight(repl[i])

(* C14: a stop for a service that has no ticket (as the second of two stops *)
(* finds it once the first has removed the ticket) returns without an      *)
(* error and changes no replacement record, no Disk Record and not the     *)
(* document.                                                               *)
C14_StopWithoutTicketIsNoop ==
    [][(StopStep /\ Len(disks) > 0
        /\ Len(GetDiskReplacementByService(repl, last'.op.chunkserverId)) = 0)
       => (last'.err = "" /\ repl' = repl /\ disks' = disks /\ doc' = doc)]_vars

----------------------------------------------------------------------------
(* C15: a replace request that fails a precondition (no Disk Records are    *)
(* registered, the service id matches no deployed service, or the service  *)
(* has no Disk Record) returns an error, creates no replacement record and *)
(* changes no Disk Record and not the document.                            *)
C15_PreconditionFailureLeavesState ==
    [][(ReplaceStep
        /\ (\/ Len(disks) = 0
            \/ ServiceHost(last'.op.chunkserverId) = ""
            \/ Len(GetDiskByService(disks, last'.op.chunkserverId)) = 0))
       => (last'.err # "" /\ repl' = repl /\ disks' = disks /\ doc' = doc)]_vars

(* C16: a status request creates and deletes no replacement record and      *)
(* changes no Disk Record and not the document, whatever service id and    *)
(* device accompany it; it writes at most the progress and the status of   *)
(* the tickets there are.                                                  *)
C16_StatusWritesOnlyProgress ==
    [][StatusStep =>
          /\ Len(repl') = Len(repl)
          /\ \A i \in 1..Len(repl) :
                [repl'[i] EXCEPT !.status = repl[i].status, !.progress = repl[i].progress]
                   = repl[i]
          /\ disks' = disks
          /\ doc' = doc]_vars

(* Service cs has a ticket that is pending or running *)
HasInFlight(tbl, cs) == \E i \in 1..Len(tbl) : tbl[i].svc = cs /\ InFlight(tbl[i])

(* C17: while a ticket of service S is in flight, a stop request for S is   *)
(* not rejected with the too-many-replacements error, and neither is a     *)
(* status request, for S or for all services.                              *)
C17_StopAndStatusAllowed ==
    [][(/\ \/ StopStep /\ HasInFlight(repl, last'.op.chunkserverId)
           \/ StatusStep /\ \E cs \in Services :
                               /\ HasInFlight(repl, cs)
                               /\ last'.op.chunkserverId \in {"", cs})
       => last'.err # "ERR_REPLACE_DISK_TOO_MANY"]_vars

----------------------------------------------------------------------------
InSeq(x, s) == \E i \in 1..Len(s) : s[i] = x

(* The document provisions the device on the host: the test by which the   *)
(* commit of the document selects the (host, device) pairs of an entry     *)
ProvisionedOn(docu, host, device) ==
    \E i \in 1..Len(docu.entries) :
        LET dc == docu.entries[i]
        IN  /\ dc.device = device
            /\ ~(~InSeq(host, dc.hosts_only.v) /\ Len(dc.hosts_only.v) > 0)
            /\ ~InSeq(host, dc.hosts_exclude.v)

(* The last request was a replace of the disk of a service by another      *)
(* device that ran all its steps without an error                          *)
ReplaceSucceeded ==
    /\ ReplaceRan /\ last.err = "" /\ last.steps = REPLACE_DISK_PLAYBOOK_STEPS
    /\ last.old # EmptyDisk /\ last.op.device # last.old.device

(* C18: after a replace for service S on host h from the old device d to a  *)
(* different new device n has run all its steps successfully, there is no  *)
(* Disk Record for (h, d), there is a Disk Record for (h, n) owned by S,   *)
(* and the document provisions n on h.                                     *)
C18_ReplaceMovesRecord ==
    ReplaceSucceeded =>
        /\ ~HasRecord(disks, last.old.host, last.old.device)
        /\ \E i \in 1..Len(disks) :
              /\ disks[i].host = last.old.host /\ disks[i].device = last.op.device
              /\ disks[i].svc = last.op.chunkserverId
        /\ ProvisionedOn(doc, last.old.host, last.op.device)

(* C19: in every reachable state each service owns at most one Disk Record; *)
(* during a replacement the old and the new device are never both recorded *)
(* as owned by the service.                                                *)
C19_OneDiskPerService ==
    \A cs \in Services : Cardinality({i \in 1..Len(disks) : disks[i].svc = cs}) <= 1

----------------------------------------------------------------------------
(* ParseDisks: the check of a disks document (disks commit).  A document   *)
(* is what parseDisksData unmarshals: the global keys and the ordered disk *)
(* entries; a key an entry does not set is absent from its record.         *)

MaxEntries == 2

(* hosts.Merge: a global key is copied into the entry that does not set it *)
GetFormatPercent(docu, disk) ==
    IF "format_percent" \in DOMAIN disk THEN disk.format_percent ELSE docu.format_percent

(* itemset.Build of the value of format_percent: the item requires a       *)
(* positive integer                                                        *)
itemsetBuild(docu, disk) ==
    IF GetFormatPercent(docu, disk) <= 0
    THEN "ERR_CONFIGURE_VALUE_REQUIRES_POSITIVE_INTEGER" ELSE ""

Build_NoUpperLimit(docu, disk) ==
    IF itemsetBuild(docu, disk) # "" THEN itemsetBuild(docu, disk)
    ELSE IF Len(disk.device) = 0 THEN "ERR_DEVICE_FIELD_MISSING"
    ELSE IF Len(disk.mount) = 0 THEN "ERR_MOUNT_POINT_FIELD_MISSING"
    ELSE ""

(* DiskConfig.Build: every value is built by the item set, then the        *)
(* required fields and the upper limit of the format percent               *)
Build(docu, disk) ==
    IF itemsetBuild(docu, disk) # "" THEN itemsetBuild(docu, disk)
    ELSE IF Len(disk.device) = 0 THEN "ERR_DEVICE_FIELD_MISSING"
    ELSE IF Len(disk.mount) = 0 THEN "ERR_MOUNT_POINT_FIELD_MISSING"
    ELSE IF GetFormatPercent(docu, disk) > 100 THEN "ERR_DISK_FORMAT_PERCENT_EXCEED_100"
    ELSE ""

HostsConflict_Never(hostsExclude, hostsOnly) == FALSE

HostsConflict(hostsExclude, hostsOnly) == Len(hostsExclude) > 0 /\ Len(hostsOnly) > 0

(* The loop of ParseDisks from entry i: dcs are the configurations built   *)
(* so far, exist the devices and mount points seen.  On an error the list  *)
(* returned is nil.                                                        *)
RECURSIVE ParseDisksLoop(_, _, _, _)
ParseDisksLoop(docu, i, dcs, exist) ==
    IF i > Len(docu.entries) THEN [err |-> "", dcs |-> dcs]
    ELSE IF Build(docu, docu.entries[i]) # ""
    THEN [err |-> Build(docu, docu.entries[i]), dcs |-> << >>]
    ELSE IF docu.entries[i].device \in exist
    THEN [err |-> "ERR_DUPLICATE_DISK", dcs |-> << >>]
    ELSE IF HostsConflict(docu.entries[i].hosts_exclude.v, docu.entries[i].hosts_only.v)
    THEN [err |-> "ERR_ONLY_EXCLUDE_HOSTS", dcs |-> << >>]
    ELSE ParseDisksLoop(docu, i + 1, Append(dcs, docu.entries[i]),
                        exist \cup {docu.entries[i].device, docu.entries[i].mount})

ParseDisks(docu) == ParseDisksLoop(docu, 1, << >>, {})

(* The documents parsed: up to MaxEntries entries; an entry may lack its   *)
(* device, carry either host list (the exclusion list possibly empty) and  *)
(* set a format percent above the limit or leave it to the global key      *)
ParseEntries ==
    {DiskEntry(d, m, o, x) : d \in {"", "sdb", "sdc"}, m \in {"/data/cs1", "/data/cs2"},
                             o \in {Nil, List(<<"h1">>)},
                             x \in {Nil, List(<< >>), List(<<"h2">>)}}
    \cup {[device |-> d, mount |-> m, hosts_only |-> o, hosts_exclude |-> x,
           format_percent |-> 101] :
             d \in {"", "sdb", "sdc"}, m \in {"/data/cs1", "/data/cs2"},
             o \in {Nil, List(<<"h1">>)}, x \in {Nil, List(<< >>), List(<<"h2">>)}}

ParseDocs ==
    {[hosts |-> Hosts, format_percent |-> 90, entries |-> es] :
        es \in UNION {[1..n -> ParseEntries] : n \in 0..MaxEntries}}

InitParse ==
    /\ doc \in ParseDocs
    /\ disks = << >>
    /\ repl = << >>
    /\ last = NoLast
    /\ pc = [p \in Procs |-> "idle"]
    /\ loc = [p \in Procs |-> NoLocal]

(* disks.ParseDisks(data) is called on the document; last keeps the error  *)
(* and the list returned                                                   *)
ParseDisksCall ==
    /\ ~last.ran
    /\ \E r \in {ParseDisks(doc)} :
          last' = [ran |-> TRUE, err |-> r.err, dcs |-> r.dcs]
    /\ UNCHANGED <<disks, repl, doc, pc, loc>>

NextParse == ParseDisksCall

SpecParse == InitParse /\ [][NextParse]_vars

----------------------------------------------------------------------------
(* Entry i of the document has a non-empty hosts-only list and a non-empty *)
(* hosts-exclude list                                                      *)
ConflictAt(docu, i) ==
    Len(docu.entries[i].hosts_only.v) > 0 /\ Len(docu.entries[i].hosts_exclude.v) > 0

HasConflictEntry(docu) == \E i \in 1..Len(docu.entries) : ConflictAt(docu, i)

FirstConflictEntry(docu) ==
    CHOOSE i \in 1..Len(docu.entries) :
        ConflictAt(docu, i) /\ \A k \in 1..(i - 1) : ~ConflictAt(docu, k)

(* Entry i has its device and mount point, a format percent within the     *)
(* limit, and a device that no earlier entry names as device or mount      *)
(* point                                                                   *)
PassesEarlierChecks(docu, i) ==
    LET e == docu.entries[i]
    IN  /\ e.device # "" /\ e.mount # ""
        /\ ("format_percent" \in DOMAIN e => e.format_percent <= 100)
        /\ ("format_percent" \notin DOMAIN e => docu.format_percent <= 100)
        /\ \A k \in 1..(i - 1) : e.device \notin {docu.entries[k].device, docu.entries[k].mount}

ParseRan == last.ran /\ "dcs" \in DOMAIN last

(* C20 as stated: parse rejects with the hosts-only/hosts-exclude conflict  *)
(* error every document that contains an entry whose hosts-only list and   *)
(* hosts-exclude list are both non-empty, and returns no configuration     *)
(* list.                                                                   *)
C20_ConflictRejectedWithConflictError ==
    (ParseRan /\ HasConflictEntry(doc))
    => (last.err = "ERR_ONLY_EXCLUDE_HOSTS" /\ last.dcs = << >>)

(* C20 amended: parse rejects every document that contains such an entry    *)
(* and returns no configuration list; the error is the conflict error      *)
(* exactly when every entry up to the first conflicting one passes the     *)
(* checks made before the conflict check (required fields, format percent, *)
(* duplicate device), and the error of the first failing check otherwise.  *)
C20_ConflictRejected ==
    (ParseRan /\ HasConflictEntry(doc))
    => /\ last.err # "" /\ last.dcs = << >>
       /\ (last.err = "ERR_ONLY_EXCLUDE_HOSTS")
             <=> \A i \in 1..FirstConflictEntry(doc) : PassesEarlierChecks(doc, i)

C20_Witness ==
    /\ ParseRan /\ Len(doc.entries) = 2
    /\ ~ConflictAt(doc, 1) /\ ConflictAt(doc, 2)
    /\ last.err = "ERR_ONLY_EXCLUDE_HOSTS" /\ last.dcs = << >>

----------------------------------------------------------------------------
(* Two entries of the document have the same device path, or the same      *)
(* mount point                                                             *)
SharesDeviceOrMount(docu) ==
    \E i, j \in 1..Len(docu.entries) :
        /\ i < j
        /\ \/ docu.entries[i].device = docu.entries[j].device
           \/ docu.entries[i].mount = docu.entries[j].mount

(* C21: ParseDisks rejects every document in which two entries have the    *)
(* same device path or the same mount point, so the entries of an accepted *)
(* document have pairwise distinct device paths and mount points.          *)
C21_DuplicatesRejected ==
    (ParseRan /\ SharesDeviceOrMount(doc)) => last.err # ""

----------------------------------------------------------------------------
(* disks commit: the document of a file becomes the persisted document and *)
(* the Disk Records are synchronised with it                               *)

(* hosts.ParseHosts: the host configurations of the hosts document, one    *)
(* per host, in the order of the document                                  *)
ParseHosts(hostsData) == hostsData

(* The host filter of an entry: a host outside a non-empty hosts_only list *)
(* and a host in the hosts_exclude list are skipped                        *)
SelectsHost(dc, host) ==
    /\ ~(~InSeq(host, dc.hosts_only.v) /\ Len(dc.hosts_only.v) > 0)
    /\ ~InSeq(host, dc.hosts_exclude.v)

(* One pass of the inner loop body of updateDisk for (hc, dc): the pair is *)
(* marked in disksToSync and a Disk Record is written when none exists     *)
WriteDiskRecord(acc, host, dc) ==
    IF ~SelectsHost(dc, host) THEN acc
    ELSE [sync |-> acc.sync \cup {<<host, dc.device>>},
          disks |-> IF Len(GetDiskByDevice(acc.disks, host, dc.device)) > 0
                    THEN acc.disks
                    ELSE SetDisk(acc.disks, host, dc.device, dc.mount,
                                 DISK_DEFAULT_NULL_CHUNKSERVER_ID)]

(* The nested loops of updateDisk, hosts outermost; k counts the pairs     *)
RECURSIVE WriteDiskRecords(_, _, _, _)
WriteDiskRecords(acc, hcs, dcs, k) ==
    IF k >= Len(hcs) * Len(dcs) THEN acc
    ELSE WriteDiskRecords(WriteDiskRecord(acc, hcs[(k \div Len(dcs)) + 1],
                                          dcs[(k % Len(dcs)) + 1]),
                          hcs, dcs, k + 1)

DeleteOwned_Allowed(dr) == FALSE

(* The record has a chunkserver id: it must not be deleted *)
DeleteOwned(dr) == dr.svc # DISK_DEFAULT_NULL_CHUNKSERVER_ID

(* The loop over diskToDeleteList: the first record with a chunkserver id  *)
(* ends the commit with an error, the records before it are deleted        *)
RECURSIVE DeleteDiskRecords(_, _, _)
DeleteDiskRecords(tbl, toDelete, i) ==
    IF i > Len(toDelete) THEN [err |-> "", disks |-> tbl]
    ELSE IF DeleteOwned(toDelete[i])
    THEN [err |-> "ERR_DISK_CHUNKSER_ID_NONEMPTY", disks |-> tbl]
    ELSE DeleteDiskRecords(DeleteDisk(tbl, toDelete[i].host, toDelete[i].device),
                           toDelete, i + 1)

(* sync disk records: diskRecords are the records curveadm.DiskRecords()    *)
(* returns, those loaded when the command started.  Only when their number *)
(* differs from the number of selected pairs, those of them that are not   *)
(* selected are deleted                                                     *)
SyncDiskRecords(diskRecords, written) ==
    IF Len(diskRecords) # Cardinality(written.sync)
    THEN DeleteDiskRecords(written.disks,
                           SelectSeq(diskRecords,
                                     LAMBDA dr : <<dr.host, dr.device>> \notin written.sync),
                           1)
    ELSE [err |-> "", disks |-> written.disks]

updateDisk(tbl, hostsData, data, parsed) ==
    IF parsed.err # "" THEN [err |-> parsed.err, disks |-> tbl]
    ELSE SyncDiskRecords(tbl, WriteDiskRecords([sync |-> {}, disks |-> tbl],
                                               ParseHosts(hostsData), parsed.dcs, 0))

(* runCommit after the file was read: the result of updateDisk is given as *)
(* updated                                                                 *)
(* The order of part_003: the document is written before the Disk Records  *)
(* are synchronised                                                        *)
CommitDone_DocumentFirst(persisted, data, updated) ==
    [err |-> updated.err, disks |-> updated.disks, doc |-> data]

CommitDone(persisted, data, updated) ==
    IF updated.err # "" THEN [err |-> updated.err, disks |-> updated.disks, doc |-> persisted]
    ELSE [err |-> "", disks |-> updated.disks, doc |-> data]

runCommit(tbl, persisted, hostsData, data, pass) ==
    IF Len(hostsData) = 0 THEN [err |-> "ERR_EMPTY_HOSTS", disks |-> tbl, doc |-> persisted]
    ELSE IF ParseDisks(data).err # ""
    THEN [err |-> ParseDisks(data).err, disks |-> tbl, doc |-> persisted]
    ELSE IF ~pass THEN [err |-> "ERR_CANCEL_OPERATION", disks |-> tbl, doc |-> persisted]
    ELSE CommitDone(persisted, data, updateDisk(tbl, hostsData, data, ParseDisks(data)))

(* The documents committed: every entry names a device and its mount       *)
(* point, with or without either host list                                 *)
CommitMount(device) ==
    IF device = "sdb" THEN "/data/cs1" ELSE IF device = "sdc" THEN "/data/cs2" ELSE "/data/cs3"

CommitEntries ==
    {DiskEntry(d, CommitMount(d), o, x) :
        d \in Devices, o \in {Nil, List(<<"h1">>)}, x \in {Nil, List(<<"h1">>)}}

CommitDocs ==
    {[hosts |-> Hosts, format_percent |-> 90, entries |-> es] :
        es \in UNION {[1..n -> CommitEntries] : n \in 0..MaxEntries}}

(* The hosts document: not committed yet, or the two hosts *)
CommitHosts == {<< >>, Hosts}

(* The Disk Records before the commit: none, those of the deployed         *)
(* cluster, those after a replacement gave the service cs1 a second one,   *)
(* or those of a cluster whose first host has no service yet               *)
CommitTables ==
    {<< >>, InitDisks, SetDisk(InitDisks, "h1", "sdd", "/data/cs1", "cs1"),
     <<Row("h2", "sdb", "/data/cs1", DISK_DEFAULT_NULL_CHUNKSERVER_ID, NoUuid, NoSize),
       Row("h2", "sdc", "/data/cs2", DISK_DEFAULT_NULL_CHUNKSERVER_ID, NoUuid, NoSize),
       Row("h1", "sdb", "/data/cs1", "cs1", "A", MaxSize)>>}

InitCommit ==
    /\ disks \in CommitTables
    /\ doc = IF disks = << >> THEN EmptyDoc ELSE InitDoc
    /\ repl = << >>
    /\ last = NoLast
    /\ pc = [p \in Procs |-> "idle"]
    /\ loc = [p \in Procs |-> NoLocal]

(* curveadm disks commit FILE: last keeps the document of the file, the    *)
(* Disk Records and the persisted document before the commit               *)
Commit ==
    /\ ~last.ran
    /\ \E data \in CommitDocs, hostsData \in CommitHosts, pass \in BOOLEAN :
         \E r \in {runCommit(disks, doc, hostsData, data, pass)} :
            /\ disks' = r.disks
            /\ doc' = r.doc
            /\ last' = [ran |-> TRUE, err |-> r.err, data |-> data, hosts |-> hostsData,
                        pass |-> pass, before |-> disks, persisted |-> doc]
    /\ UNCHANGED <<repl, pc, loc>>

NextCommit == Commit

SpecCommit == InitCommit /\ [][NextCommit]_vars

CommitRan == last.ran /\ "data" \in DOMAIN last

(* C22: a commit never deletes a Disk Record that has an owning service:   *)
(* every such record of the table before the commit is in the table after  *)
(* it, also when the committed document does not select its (host, device) *)
C22_OwnedRecordKept ==
    CommitRan =>
        \A i \in 1..Len(last.before) :
            last.before[i].svc # DISK_DEFAULT_NULL_CHUNKSERVER_ID => InSeq(last.before[i], disks)

(* A commit that reached the deletion of the records the document does not *)
(* select, one of them owned by a service, and kept that one               *)
C22_Witness ==
    /\ CommitRan
    /\ last.err = "ERR_DISK_CHUNKSER_ID_NONEMPTY"
    /\ \E i \in 1..Len(last.before) :
          /\ last.before[i].svc # DISK_DEFAULT_NULL_CHUNKSERVER_ID
          /\ ~ProvisionedOn(last.data, last.before[i].host, last.before[i].device)
          /\ InSeq(last.before[i], disks)

----------------------------------------------------------------------------
(* UpdateDisks called on its own: the replacement of the disk of cs1 on    *)
(* h1 by another device is reconciled with a document that parse accepts   *)

(* The document invariant: no entry has both host lists non-empty, no two  *)
(* entries share a device path or a mount point                            *)
DocInvariant(docu) ==
    /\ \A i \in 1..Len(docu.entries) : ~ConflictAt(docu, i)
    /\ ~SharesDeviceOrMount(docu)

ReconcileEntries ==
    {DiskEntry(d, CommitMount(d), o, x) :
        d \in Devices, o \in {Nil, List(<< >>), List(<<"h1">>), List(<<"h2">>)},
        x \in {Nil, List(<< >>), List(<<"h1">>), List(<<"h2">>)}}

ReconcileDocs ==
    {docu \in {[hosts |-> Hosts, format_percent |-> 90, entries |-> es] :
                  es \in UNION {[1..n -> ReconcileEntries] : n \in 0..MaxEntries}} :
        DocInvariant(docu) /\ ParseDisks(docu).err = ""}

(* The Disk Records: cs1 owns sdb on h1; the device sdd of h1 has no       *)
(* record, or one of cs1 with another or with the same disk id, or one     *)
(* without a service                                                       *)
ReconcileTables ==
    {<<Row("h1", "sdb", "/data/cs1", "cs1", "A", MaxSize),
       Row("h2", "sdb", "/data/cs1", DISK_DEFAULT_NULL_CHUNKSERVER_ID, NoUuid, NoSize)>>,
     <<Row("h1", "sdb", "/data/cs1", "cs1", "A", MaxSize),
       Row("h1", "sdd", "/data/cs1", "cs1", "B", MaxSize)>>,
     <<Row("h1", "sdb", "/data/cs1", "cs1", "A", MaxSize),
       Row("h1", "sdd", "/data/cs1", "cs1", "A", MaxSize)>>,
     <<Row("h1", "sdb", "/data/cs1", "cs1", "A", MaxSize),
       Row("h1", "sdd", "/data/cs3", DISK_DEFAULT_NULL_CHUNKSERVER_ID, NoUuid, NoSize)>>}

InitReconcile ==
    /\ disks \in ReconcileTables
    /\ doc \in ReconcileDocs
    /\ repl = << >>
    /\ last = NoLast
    /\ pc = [p \in Procs |-> "idle"]
    /\ loc = [p \in Procs |-> NoLocal]

(* disks.UpdateDisks(curveadm.Disks(), host, device, chunkserverId,        *)
(* oldDiskId) for the service cs1 and its first Disk Record; last keeps    *)
(* the arguments, the Disk Records and the document before the call        *)
Reconcile ==
    /\ ~last.ran
    /\ \E device \in {"sdc", "sdd"}, old \in {GetDiskByService(disks, "cs1")[1]} :
         \E r \in {UpdateDisks(doc, doc, disks, old.host, device, old)} :
            /\ disks' = r.disks
            /\ doc' = r.doc
            /\ last' = [ran |-> TRUE, err |-> r.err, host |-> old.host, newDevice |-> device,
                        old |-> old, before |-> disks, persisted |-> doc]
    /\ UNCHANGED <<repl, pc, loc>>

NextReconcile == Reconcile

SpecReconcile == InitReconcile /\ [][NextReconcile]_vars

ReconcileRan == last.ran /\ "newDevice" \in DOMAIN last

(* C23: if the document satisfies the document invariant before           *)
(* UpdateDisks, the document persisted after it satisfies it too and is    *)
(* accepted by ParseDisks.                                                 *)
C23_DocInvariantPreserved ==
    (ReconcileRan /\ DocInvariant(last.persisted)) =>
        (DocInvariant(doc) /\ ParseDisks(doc).err = "")

(* C24: UpdateDisks for a host changes the provisioning of that host       *)
(* only: for every other host and every device, the document persisted     *)
(* after the call provisions the device on the host exactly when the       *)
(* document before it did.                                                 *)
C24_OtherHostsUntouched ==
    ReconcileRan =>
        \A i \in 1..Len(Hosts) : \A d \in Devices :
            Hosts[i] # last.host =>
                (ProvisionedOn(doc, Hosts[i], d) <=> ProvisionedOn(last.persisted, Hosts[i], d))

(* The call took the branch of UpdateDisks for a new device without a Disk *)
(* Record and returned no error                                            *)
ReconcilePatched ==
    /\ ReconcileRan
    /\ last.err = ""
    /\ Len(GetDiskByDevice(last.before, last.host, last.newDevice)) = 0

(* C25: when the document has an entry for the old device, UpdateDisks     *)
(* leaves that entry with the host in its exclusion list and leaves no     *)
(* Disk Record at (host, old device), whether or not the entry had an      *)
(* exclusion list before.                                                  *)
C25_OldEntryExcludedAndRecordDeleted ==
    ReconcilePatched =>
        \A i \in 1..Len(last.persisted.entries) :
            last.persisted.entries[i].device = last.old.device =>
                /\ InSeq(last.host, doc.entries[i].hosts_exclude.v)
                /\ Len(GetDiskByDevice(disks, last.host, last.old.device)) = 0

(* The (host, device) pairs that have a Disk Record *)
DiskKeys(tbl) == {<<tbl[i].host, tbl[i].device>> : i \in 1..Len(tbl)}

(* C26: if a Disk Record exists at (host, new device) when UpdateDisks is  *)
(* called, the entries of the persisted document are the same after the    *)
(* call and no Disk Record is created or deleted.                          *)
C26_TrackedDeviceNoChange ==
    (ReconcileRan /\ Len(GetDiskByDevice(last.before, last.host, last.newDevice)) > 0) =>
        /\ doc.entries = last.persisted.entries
        /\ DiskKeys(disks) = DiskKeys(last.before)
        /\ Len(disks) = Len(last.before)

(* A call for a new device that has a Disk Record of the service, with     *)
(* another disk id, returned without an error, on a document with entries  *)
C26_Witness ==
    /\ ReconcileRan
    /\ Len(GetDiskByDevice(last.before, last.host, last.newDevice)) > 0
    /\ last.err = ""
    /\ Len(last.persisted.entries) > 0

----------------------------------------------------------------------------
(* An interrupted replacement: the process of a replace for cs1 stops      *)
(* between two of its accesses to the storage and never resumes; a stop or *)
(* a replace for cs1 is then issued on what it left behind                 *)

(* The Disk Records when the replace starts: those of the deployed         *)
(* cluster, with or without a record of the device sdd of h1               *)
CrashTables ==
    {InitDisks, SelectSeq(InitDisks, LAMBDA d : ~(d.host = "h1" /\ d.device = "sdd"))}

InitCrash ==
    /\ disks \in CrashTables
    /\ doc = InitDoc
    /\ repl = << >>
    /\ last = NoLast
    /\ pc = [p \in Procs |-> "idle"]
    /\ loc = [p \in Procs |-> NoLocal]

(* The process wrote its ticket, or more, and has not returned *)
Interrupted == pc[1] \in {"addDisk", "genPlaybook", "playbook"}

(* One more step of the replace, as long as no other request was issued *)
CrashReplaceStep ==
    /\ ~last.ran
    /\ \/ ConcStart(1)
       \/ ConcCheckRunning(1)
       \/ ConcGetOldDisk(1)
       \/ ConcAddReplacement(1)
       \/ ConcAddDisk(1)
       \/ ConcGenPlaybook(1)
       \/ ConcStep(1)

(* replace-disk --chunkserver-id cs1 --stop after the interruption *)
RecoverStop ==
    /\ ~last.ran
    /\ Interrupted
    /\ \E in \in StopInputs : Invoke(Options("cs1", "", TRUE, FALSE), in)

(* replace-disk --chunkserver-id cs1 --device d after the interruption *)
RecoverReplace ==
    /\ ~last.ran
    /\ Interrupted
    /\ \E device \in Devices :
          \E in \in ReplaceInputs(disks, "cs1", device) :
             Invoke(Options("cs1", device, FALSE, FALSE), in)

NextCrash == CrashReplaceStep \/ RecoverStop \/ RecoverReplace

SpecCrash == InitCrash /\ [][NextCrash]_vars

(* The request issued after the interruption was a stop whose remote       *)
(* command did not fail                                                    *)
RecoverStopRan == last.ran /\ last.op.stopDiskReplacement /\ last.in.fault = "none"

(* C27: a replacement interrupted between two of its writes leaves a state *)
(* in which cs1 still has a Disk Record; a stop or a replace for cs1       *)
(* issued then is not rejected for lack of a disk device, and the stop     *)
(* goes through, leaving cs1 with a Disk Record.                           *)
C27_InterruptionRecoverable ==
    /\ (Interrupted /\ ~last.ran) => Len(GetDiskByService(disks, "cs1")) > 0
    /\ last.ran => last.err # "ERR_DATABASE_EMPTY_QUERY_RESULT"
    /\ RecoverStopRan => (last.err = "" /\ Len(GetDiskByService(disks, "cs1")) > 0)

----------------------------------------------------------------------------
(* The order of the validation: cluster health, size, ownership,           *)
(* same physical disk, emptiness, unmount of the old mount point           *)
ValidationOrder ==
    <<"checkCopysetsHealty", "checkDiskSize", "checkDiskInUse",
      "checkDiskTheSame", "checkDiskEmpty", "UmountFilesystem">>

(* The last request was a replace whose validation task ran its steps *)
ValidationRan ==
    /\ ReplaceRan
    /\ InSeq(CHECK_DISK_REPLACEMENT, last.steps)
    /\ Len(last.checks) > 0

(* The validation task of the last request returned an error *)
ValidationFailed ==
    ValidationRan /\ last.err # "" /\ last.steps[Len(last.steps)] = CHECK_DISK_REPLACEMENT

(* The verdict of check number i of the order on what the last request saw *)
VerdictOf(i) ==
    CheckStep(ValidationOrder[i], disks, ServiceHost(last.op.chunkserverId), last.op.device,
              last.checked, last.in)

(* C28: the checks of the validation run in the fixed order; the first     *)
(* check that fails ends the task, so the error returned is that of the    *)
(* earliest failing check, and no later check and not the unmount of the   *)
(* old mount point is executed.                                            *)
C28_ChecksOrderedShortCircuit ==
    ValidationRan =>
        /\ Len(last.checks) <= Len(ValidationOrder)
        /\ \A i \in 1..Len(last.checks) : last.checks[i] = ValidationOrder[i]
        /\ ValidationFailed =>
              /\ \A i \in 1..(Len(last.checks) - 1) : VerdictOf(i) = ""
              /\ VerdictOf(Len(last.checks)) = last.err
              /\ Len(last.checks) < Len(ValidationOrder) =>
                    ~InSeq("UmountFilesystem", last.checks)
        /\ ~ValidationFailed => Len(last.checks) = Len(ValidationOrder)

(* The size check failed on a candidate that is not empty either: the      *)
(* later emptiness check would have failed too                             *)
C28_Witness ==
    /\ ValidationFailed
    /\ last.err = "ERR_REPLACE_DISK_SMALLER_SIZE"
    /\ last.in.fsType # ""
    /\ last.checks = <<"checkCopysetsHealty", "checkDiskSize">>

----------------------------------------------------------------------------
(* Status polls while the format job of a replacement runs: cs1 has a      *)
(* pending ticket for the device sdd of h1, and the format status map has  *)
(* one report, for that device or for one without a ticket, or is absent   *)

MaxTarget == 4

(* Formatted split at "/": "current/target" with numbers or other text, a  *)
(* text without "/" (the empty text too), or a text with two "/"           *)
ProgressFormatted ==
    {<<c, t>> : c \in (0..MaxTarget) \cup {Malformed}, t \in (0..MaxTarget) \cup {Malformed}}
    \cup {<<Malformed>>, <<1, 2, 3>>}

ProgressReports ==
    {[host |-> "h1", device |-> d, formatted |-> f, status |-> st] :
        d \in {"sdc", "sdd"}, f \in ProgressFormatted, st \in {"Formatting", STATUS_DONE}}

InitProgress ==
    /\ disks = SetDisk(InitDisks, "h1", "sdd", "/data/cs1", "cs1")
    /\ doc = InitDoc
    /\ repl = SetDiskReplacement(<< >>, "h1", "sdd", "A", "cs1")
    /\ last = NoLast
    /\ pc = [p \in Procs |-> "idle"]
    /\ loc = [p \in Procs |-> NoLocal]

(* replace-disk --status with the report the format subsystem gives *)
Poll ==
    /\ ~last.ran
    /\ \E report \in ProgressReports :
          Invoke(Options("", "", FALSE, TRUE), [DefaultIn EXCEPT !.reports = <<report>>])

(* replace-disk --status when no format status was collected *)
PollWithoutReport ==
    /\ ~last.ran
    /\ Invoke(Options("", "", FALSE, TRUE), DefaultIn)

NextProgress == Poll \/ PollWithoutReport \/ Return

SpecProgress == InitProgress /\ [][NextProgress]_vars

(* The last request was a status poll that was given a report for the      *)
(* device of the ticket                                                    *)
PollRan ==
    /\ last.ran
    /\ last.op.diskReplacementStatus
    /\ Len(last.in.reports) = 1
    /\ last.in.reports[1].device = repl[1].device

PolledReport == last.in.reports[1]

(* The report is "current/target" with numbers, 0 <= current <= target and *)
(* target > 0                                                              *)
WellFormedReport(r) ==
    /\ Len(r.formatted) = 2
    /\ r.formatted[1] # Malformed /\ r.formatted[2] # Malformed
    /\ 0 <= r.formatted[1] /\ r.formatted[1] <= r.formatted[2] /\ r.formatted[2] > 0

(* The report has no "current/target" with two numbers, or its target is 0 *)
UnusableReport(r) ==
    \/ Len(r.formatted) # 2
    \/ r.formatted[1] = Malformed
    \/ r.formatted[2] = Malformed
    \/ r.formatted[2] = 0

(* C29: after a status poll the progress stored for the ticket is          *)
(* floor(100 * current / target) for a report "current/target" with        *)
(* 0 <= current <= target and target > 0 (the report not flagged done); it *)
(* is 0, and the poll returns no error, for a missing or malformed report  *)
(* or one with target 0; it is always within 0..100.                       *)
C29_ProgressIsFloorOfRatio ==
    (PollRan /\ PolledReport.status # STATUS_DONE) =>
        /\ WellFormedReport(PolledReport) =>
              repl[1].progress = (100 * PolledReport.formatted[1]) \div PolledReport.formatted[2]
        /\ UnusableReport(PolledReport) => (repl[1].progress = 0 /\ last.err = "")
        /\ repl[1].progress \in 0..100

(* This step is a status poll given a report for the device of the ticket  *)
PollStep ==
    /\ ~last.ran
    /\ last'.ran
    /\ last'.op.diskReplacementStatus
    /\ Len(last'.in.reports) = 1
    /\ last'.in.reports[1].host = repl[1].host
    /\ last'.in.reports[1].device = repl[1].device

(* The report says the format job has completed: current = target, or the  *)
(* status flag is done                                                     *)
ReportsCompletion(r) ==
    \/ WellFormedReport(r) /\ r.formatted[1] = r.formatted[2]
    \/ r.status = STATUS_DONE

(* C30: a status poll that observes, for a ticket that is not done, a      *)
(* report with current = target or with the done status flag, sets the     *)
(* ticket to status done with progress 100.                                *)
C30_CompletionSetsDone ==
    [][(PollStep /\ repl[1].status # STATUS_DONE /\ ReportsCompletion(last'.in.reports[1]))
          => (repl'[1].status = STATUS_DONE /\ repl'[1].progress = 100)]_vars

(* The report says the format job is part way: current < target, and the   *)
(* status flag is not done                                                 *)
ReportsPartial(r) ==
    /\ WellFormedReport(r)
    /\ r.formatted[1] < r.formatted[2]
    /\ r.status # STATUS_DONE

(* C31: a status poll that observes partial completion (below 100%) for a  *)
(* ticket that is pending or running leaves the ticket with status running *)
(* and with progress floor(100 * current / target).                        *)
C31_PartialSetsRunning ==
    [][(PollStep /\ repl[1].status \in {STATUS_PENDING, STATUS_RUNNING}
          /\ ReportsPartial(last'.in.reports[1]))
          => /\ repl'[1].status = STATUS_RUNNING
             /\ repl'[1].progress =
                   (100 * last'.in.reports[1].formatted[1]) \div last'.in.reports[1].formatted[2]]_vars

----------------------------------------------------------------------------
(* C32: a stop request only reverts bookkeeping and gives the new disk a   *)
(* random identity: none of the steps it runs is one that stops the        *)
(* format job of the device.                                               *)
C32_StopLeavesFormatRunning ==
    StopRan => ~InSeq(STOP_FORMAT, last.steps)

----------------------------------------------------------------------------
(* Requests with any combination of the flags of the command: with or      *)
(* without --chunkserver-id and --device, with or without --stop and       *)
(* --status                                                                *)
AnyOptions ==
    {Options(cs, device, stop, status) :
        cs \in {"", "cs1", "cs2"}, device \in {"", "sdc", "sdd"},
        stop \in BOOLEAN, status \in BOOLEAN}

Request ==
    /\ ~last.ran
    /\ Len(repl) < MaxTickets
    /\ \E options \in AnyOptions, in \in {DefaultIn, [DefaultIn EXCEPT !.fault = "cancel"]} :
          Invoke(options, in)

NextOptions == Request \/ Return

SpecOptions == Init /\ [][NextOptions]_vars

(* The request lacks a required input: no service id together with stop or *)
(* with a device, or neither stop nor status and no device                 *)
MissingInput(op) ==
    \/ op.chunkserverId = "" /\ (op.stopDiskReplacement \/ op.device # "")
    \/ ~op.stopDiskReplacement /\ ~op.diskReplacementStatus /\ op.device = ""

(* C33: a request that lacks a required input returns an error, writes     *)
(* nothing to the storage and runs no playbook step.                       *)
C33_MissingInputIsError ==
    [][(~last.ran /\ last'.ran /\ MissingInput(last'.op))
          => /\ last'.err # ""
             /\ last'.steps = << >>
             /\ disks' = disks /\ repl' = repl /\ doc' = doc]_vars

----------------------------------------------------------------------------
(* C34: the topology document is overwritten only after the Disk Records   *)
(* were synchronised: after a commit that fails, also one that fails while *)
(* deleting the de-selected records, the persisted document is the one     *)
(* persisted before the commit.                                            *)
C34_FailedCommitKeepsDocument ==
    (CommitRan /\ last.err # "") => doc = last.persisted

(* A commit of a new document that failed on a de-selected record owned by *)
(* a service, after it had written Disk Records                            *)
C34_Witness ==
    /\ CommitRan
    /\ last.err = "ERR_DISK_CHUNKSER_ID_NONEMPTY"
    /\ last.data # last.persisted
    /\ disks # last.before
    /\ doc = last.persisted

----------------------------------------------------------------------------
(* A disks-commit issued while a replace of the disk of cs1 is running: the *)
(* replace read the document when its process started and runs step by     *)
(* step, the commit runs to completion at any point between two steps      *)

(* The documents committed: the persisted one with the host lists of one   *)
(* entry changed                                                           *)
RaceDocs ==
    {[hosts |-> Hosts, format_percent |-> 90,
      entries |-> [InitDoc.entries EXCEPT ![k] = DiskEntry(@.device, @.mount, o, x)]] :
        k \in 1..Len(InitDoc.entries),
        o \in {Nil, List(<<"h1">>)}, x \in {Nil, List(<<"h2">>)}}

InitRace ==
    /\ disks = InitDisks
    /\ doc = InitDoc
    /\ repl = << >>
    /\ last = NoLast
    /\ pc = [p \in Procs |-> "idle"]
    /\ loc = [p \in Procs |-> NoLocal]

RaceReplaceStep ==
    \/ ConcStart(1)
    \/ ConcCheckRunning(1)
    \/ ConcGetOldDisk(1)
    \/ ConcAddReplacement(1)
    \/ ConcAddDisk(1)
    \/ ConcGenPlaybook(1)
    \/ ConcStep(1)

RaceCommit ==
    /\ ~last.ran
    /\ \E data \in RaceDocs :
         \E r \in {runCommit(disks, doc, Hosts, data, TRUE)} :
            /\ disks' = r.disks
            /\ doc' = r.doc
            /\ last' = [ran |-> TRUE, err |-> r.err, data |-> data, hosts |-> Hosts,
                        pass |-> TRUE, before |-> disks, persisted |-> doc]
    /\ UNCHANGED <<repl, pc, loc>>

NextRace == RaceReplaceStep \/ RaceCommit

SpecRace == InitRace /\ [][NextRace]_vars

(* A commit changed the persisted document after the replace had read it  *)
CommittedBetween ==
    /\ CommitRan
    /\ last.err = ""
    /\ last.data.entries # last.persisted.entries
    /\ loc[1].disksData = last.persisted
    /\ doc = last.data

(* The replace is about to run its reconcile step *)
AtReconcile ==
    /\ pc[1] = "playbook"
    /\ loc[1].steps[loc[1].i] = REPLACE_DISK

(* C35: a change persisted by a commit that completes between the moment   *)
(* the replace reads the document and the moment its reconcile step writes *)
(* it is not lost: the entries of the committed document for the devices   *)
(* the replace does not touch are in the document the reconcile writes.    *)
C35_CommittedChangeNotLost ==
    [][(CommittedBetween /\ AtReconcile /\ loc'[1].err = "" /\ pc'[1] = "done")
          => \A k \in 1..Len(last.data.entries) :
                last.data.entries[k].device
                      \notin {loc[1].options.device, loc[1].oldDisk.device}
                   => InSeq(last.data.entries[k], doc'.entries)]_vars

----------------------------------------------------------------------------
(* The ticket a request added to the table *)
NewTicket == repl'[Len(repl')]

(* C36: the ticket created by a replace request for service S with device  *)
(* n has S as owning service, the host of the Disk Record S had when the    *)
(* request was issued as host, n as new device, and the disk id parsed     *)
(* from the URI of that Disk Record as former disk id.                     *)
C36_TicketFields ==
    [][(~last.ran /\ last'.ran /\ IsReplace(last'.op) /\ Len(repl') = Len(repl) + 1)
          => /\ NewTicket.svc = last'.op.chunkserverId
             /\ NewTicket.host = GetDiskByService(disks, last'.op.chunkserverId)[1].host
             /\ NewTicket.device = last'.op.device
             /\ NewTicket.diskId =
                   getDiskId(GetDiskByService(disks, last'.op.chunkserverId)[1]).id
             /\ SubSeq(repl', 1, Len(repl)) = repl]_vars

(* The replace of the disk of cs1, on sdb of h1 with the id A, by sdd has   *)
(* created its ticket                                                      *)
C36_Witness ==
    /\ last.ran
    /\ IsReplace(last.op)
    /\ last.op.chunkserverId = "cs1"
    /\ last.op.device = "sdd"
    /\ last.old.device = "sdb"
    /\ Len(repl) = 1
    /\ repl[1].svc = "cs1" /\ repl[1].host = "h1"
    /\ repl[1].device = "sdd" /\ repl[1].diskId = "A"

----------------------------------------------------------------------------
(* Documents whose entries set a format percent below, inside and above    *)
(* the range (0,100], or leave it to the global key                        *)
PercentValues == {-1, 0, 1, 100, 101}

PercentEntries ==
    {DiskEntry(d, CommitMount(d), Nil, Nil) : d \in {"sdb", "sdc"}}
    \cup {[device |-> d, mount |-> CommitMount(d), hosts_only |-> Nil, hosts_exclude |-> Nil,
           format_percent |-> v] : d \in {"sdb", "sdc"}, v \in PercentValues}

PercentDocs ==
    {[hosts |-> Hosts, format_percent |-> 90, entries |-> es] :
        es \in UNION {[1..n -> PercentEntries] : n \in 0..MaxEntries}}

InitPercent ==
    /\ doc \in PercentDocs
    /\ disks = << >>
    /\ repl = << >>
    /\ last = NoLast
    /\ pc = [p \in Procs |-> "idle"]
    /\ loc = [p \in Procs |-> NoLocal]

NextPercent == ParseDisksCall

SpecPercent == InitPercent /\ [][NextPercent]_vars

(* The format percent of entry i, after the merge of the global keys, lies *)
(* outside the range (0,100]                                               *)
PercentOutOfRange(docu, i) ==
    \/ GetFormatPercent(docu, docu.entries[i]) <= 0
    \/ GetFormatPercent(docu, docu.entries[i]) > 100

----------------------------------------------------------------------------
(* The (host, device) pairs a document selects: the host is one of the     *)
(* committed hosts, it is in the entry's hosts-only list when that list is *)
(* not empty, and it is not in the entry's hosts-exclude list              *)
SelectedPairs(hostsData, data) ==
    {<<hostsData[h], data.entries[k].device>> :
        <<h, k>> \in {hk \in (1..Len(hostsData)) \X (1..Len(data.entries)) :
            /\ \/ Len(data.entries[hk[2]].hosts_only.v) = 0
               \/ InSeq(hostsData[hk[1]], data.entries[hk[2]].hosts_only.v)
            /\ ~InSeq(hostsData[hk[1]], data.entries[hk[2]].hosts_exclude.v)}}

(* C38: after a commit that returns success the (host, device) keys of the *)
(* Disk Records are exactly the pairs the committed document selects, and  *)
(* the records that existed before and are still selected are unchanged.   *)
C38_RecordsMatchSelection ==
    (CommitRan /\ last.err = "") =>
        /\ DiskKeys(disks) = SelectedPairs(last.hosts, last.data)
        /\ \A i \in 1..Len(last.before) :
              <<last.before[i].host, last.before[i].device>>
                    \in SelectedPairs(last.hosts, last.data)
                 => InSeq(last.before[i], disks)

----------------------------------------------------------------------------
(* The service has a ticket with status running *)
HasRunningTicket(tbl, cs) ==
    \E i \in 1..Len(tbl) : tbl[i].svc = cs /\ tbl[i].status = STATUS_RUNNING

(* C39: a replace request for service S issued while S has a running       *)
(* ticket creates no second ticket, and at every time each service has at  *)
(* most one replacement record.                                            *)
C39_OneTicketPerService ==
    [][/\ (~last.ran /\ last'.ran /\ IsReplace(last'.op)
              /\ HasRunningTicket(repl, last'.op.chunkserverId))
          => Len(repl') = Len(repl)
       /\ \A cs \in Services : Len(GetDiskReplacementByService(repl', cs)) <= 1]_vars

----------------------------------------------------------------------------
(* The request replaces the disk of a service by the device its Disk       *)
(* Record already names: the disk was swapped in the same slot             *)
SameSlotReplace ==
    /\ ~last.ran /\ last'.ran
    /\ IsReplace(last'.op)
    /\ last'.op.chunkserverId \in Services
    /\ last'.old.svc = last'.op.chunkserverId
    /\ last'.old.device = last'.op.device

====
